---------------------------- MODULE Spec2Model ----------------------------
(***************************************************************************)
(* LAN speed-test tool (roigarber/Hackathon).  The repository holds        *)
(* several variants of the same program:                                   *)
(*   server.py      class SpeedTestServer (newline-terminated size token)  *)
(*   servertest.py  function-style server (one recv for the size token)    *)
(*   Server.py      early server (7-byte offer, "FileSize:" request)       *)
(*   client.py      class SpeedTestClient (sequential transfers)           *)
(*   clienttest.py  threaded client with a StatisticsHandler               *)
(* Each part of the program is a state machine of its own; the module      *)
(* gives one specification per part:                                       *)
(*   SpecStream     one stream (TCP) session, server worker and client     *)
(*   SpecDatagram   one datagram (UDP) session, server worker and client   *)
(*   SpecDiscovery  the offer listener of the client                       *)
(*   SpecServer     the server's start/stop and its three activities       *)
(*   SpecRound      one test round of clienttest.py's main                 *)
(***************************************************************************)
EXTENDS Integers, Sequences, FiniteSets, TLC

(***************************************************************************)
(* Program constants.                                                      *)
(***************************************************************************)
CHUNK_SIZE == 1024
ClientRecvBuf == 4096
ClientTestRecvBuf == 1024
MAGIC_COOKIE == <<171, 205, 220, 186>>   \* 0xabcddcba, its four bytes in network order
MSG_TYPE_OFFER == 2
MSG_TYPE_REQUEST == 3
MSG_TYPE_PAYLOAD == 4
OfferLen == 9                \* struct '>IBHH'
RequestLen == 13             \* struct '>IBQ'
PayloadHeaderLen == 21       \* struct '>IBQQ'
NoneValue == -1              \* Python's None where the code holds a number or None
broadcast_timeout == 10      \* clienttest.py: seconds to listen for a broadcast
BROADCAST_PORT == 13117      \* server.py, Server.py: the well-known discovery port
SERVER_UDP_PORT == 20001     \* servertest.py
serverUDPPort == 12000       \* clienttest.py: the port receive_broadcast binds
SERVER_TCP_PORT == 20002     \* servertest.py
ServerPyOfferLen == 7        \* Server.py: struct '>IBH'

(***************************************************************************)
(* Bounds of the model.                                                    *)
(***************************************************************************)
MaxChunks == 2
MaxSegments == 2
MaxDups == 1
MaxStrays == 1
MaxWait == 11
MaxArrivals == 3
MaxRounds == 2
MaxOffers == 2
MaxConns == 2
MaxRequests == 2
MaxWorkers == 2
MaxBadRequests == 1
MaxTransfers == 2            \* num_udp: datagram transfers client.py runs in a row

Min(a, b) == IF a <= b THEN a ELSE b

RECURSIVE SumSeq(_)
SumSeq(s) == IF s = <<>> THEN 0 ELSE Head(s) + SumSeq(Tail(s))

(* The sizes a user may type: around every chunk boundary up to MaxChunks. *)
Sizes == { k * CHUNK_SIZE + r : k \in 0..MaxChunks, r \in {0, 1, CHUNK_SIZE - 1} }

(***************************************************************************)
(* Text of the size token.                                                 *)
(***************************************************************************)
NL == "\n"
Digits == <<"0", "1", "2", "3", "4", "5", "6", "7", "8", "9">>
DigitChars == { Digits[i] : i \in 1..10 }
DigitVal(c) == (CHOOSE i \in 1..10 : Digits[i] = c) - 1

(* str(n) for n >= 0 *)
RECURSIVE Str(_)
Str(n) == IF n < 10 THEN <<Digits[n + 1]>>
          ELSE Append(Str(n \div 10), Digits[(n % 10) + 1])

(* bytes.strip() on a text of digits and newlines *)
RECURSIVE StripLeft(_)
StripLeft(s) == IF s # <<>> /\ Head(s) = NL THEN StripLeft(Tail(s)) ELSE s
RECURSIVE StripRight(_)
StripRight(s) == IF s # <<>> /\ s[Len(s)] = NL
                 THEN StripRight(SubSeq(s, 1, Len(s) - 1)) ELSE s
Strip(s) == StripRight(StripLeft(s))

(* int(text): defined on non-empty digit strings, ValueError otherwise *)
IsDecimal(s) == s # <<>> /\ \A i \in 1..Len(s) : s[i] \in DigitChars
RECURSIVE IntOf(_)
IntOf(s) == IF s = <<>> THEN 0
            ELSE 10 * IntOf(SubSeq(s, 1, Len(s) - 1)) + DigitVal(s[Len(s)])

(***************************************************************************)
(* One stream session.                                                     *)
(***************************************************************************)
VARIABLES
  tcpSrv,          \* the server variant serving the connection
  tcpCli,          \* the client variant that opened it
  file_size,       \* the size the client asks for
  c2s,             \* token bytes sent by the client and not yet read
  s2c,             \* payload bytes sent by the server and not yet read
  broken,          \* the connection was reset by the network
  srvPc,           \* "read" | "send" | "closed"
  data,            \* server: token bytes read so far
  requested_size,  \* server: the parsed size
  bytes_sent,      \* server: bytes written so far
  writes,          \* server: the size of every write, in order
  srvError,        \* server: the worker's except branch was taken
  cliPc,           \* "start" | "recv" | "done" | "failed"
  bytes_received,  \* client: bytes accumulated
  tcp_record       \* client: the result computed when the receive loop is over

streamVars == <<tcpSrv, tcpCli, file_size, c2s, s2c, broken, srvPc, data,
                requested_size, bytes_sent, writes, srvError, cliPc,
                bytes_received, tcp_record>>

(***************************************************************************)
(* One datagram session.                                                   *)
(***************************************************************************)
VARIABLES
  udpSrv,            \* the server variant answering the Request
  udpCli,            \* the client variant running the session
  udp_file_size,     \* the size the client asks for
  reqState,          \* the Request: "unsent" | "inflight" | "received" | "lost"
  udpSrvPc,          \* send worker: "wait" | "sending" | "done" | "failed"
  srv_total,         \* send worker: total_segments
  seg_num,           \* send worker: the loop variable
  sentLog,           \* send worker: the datagrams handed to sendto, in order
  net,               \* datagrams on their way to the client's socket
  dups,              \* duplications the network made so far
  strays,            \* foreign datagrams that reached the socket so far
  udpMainPc,         \* client: "start" | "wait" | "join" | "done"
  udpRecvPc,         \* client receive loop: "idle" | "loop" | "ended"
  keep_receiving,    \* client.py: the flag the receive thread polls
  total_segments,    \* client: total_segments of the session
  received_segments, \* client.py: the set of segment numbers
  received_count,    \* clienttest.py: received_segments, a counter
  udp_bytes_received,\* client.py: bytes counted by the receive loop
  seenIdx,           \* the segment_index values of the Payloads recvfrom returned
  report,            \* the session's result, NoReport until it is computed
  silence,           \* seconds since the receive loop last got a datagram
  slept              \* seconds client.py's main thread has slept so far

dgramVars == <<udpSrv, udpCli, udp_file_size, reqState, udpSrvPc, srv_total,
               seg_num, sentLog, net, dups, strays, udpMainPc, udpRecvPc,
               keep_receiving, total_segments, received_segments,
               received_count, udp_bytes_received, seenIdx, report,
               silence, slept>>

(***************************************************************************)
(* The offer listener of a client.                                         *)
(***************************************************************************)
VARIABLES
  discCli,     \* the client variant that listens
  discPc,      \* "idle" | "listening" | "found" | "testing" | "aggregating"
               \* | "crashed" | "exited"
  endpoint,    \* (server_ip, udp_port, tcp_port) held by the client
  outcome,     \* how the last discovery ended
  waited,      \* seconds spent in the current recvfrom
  arrivals,    \* datagrams that reached the discovery port so far
  lastDgram,   \* the last of them
  firstValid,  \* the first valid Offer received by the current discovery
  discRound    \* discoveries started so far

discVars == <<discCli, discPc, endpoint, outcome, waited, arrivals, lastDgram,
              firstValid, discRound>>

(***************************************************************************)
(* A server: its sockets and its three activities.                         *)
(***************************************************************************)
VARIABLES
  srvVariant,       \* "server.py" | "servertest.py" | "Server.py"
  is_running,       \* the flag the loops of server.py and Server.py poll
  server_udp_port,  \* the port chosen for Requests (NoneValue in Server.py)
  server_tcp_port,  \* the port chosen for connections
  offer_packet,     \* the Offer built at startup
  udpSock,          \* request socket: "new" | "bound" | "closed"
  tcpSock,          \* listening socket: "new" | "listening" | "closed"
  udpBoundPort,     \* the port the request socket was bound to
  tcpBoundPort,     \* the port the listening socket was bound to
  bcastPc,          \* Offer Broadcaster: "off" | "running" | "ended"
  dispPc,           \* Datagram Request Dispatcher: "off" | "running" | "ended"
  acceptors,        \* Connection Acceptor loops that are running
  offers,           \* the distinct Offers emitted so far
  nOffers,          \* how many were emitted
  accepted,         \* connections accepted so far
  dispatched,       \* Requests answered so far
  tcpWorkers,       \* stream workers that are running
  udpWorkers,       \* datagram send workers that are running
  abortedWorkers,   \* workers ended by an error on a socket of the server
  bcastFailed,      \* a broadcast send has failed
  stopRequested,    \* the operator stopped the server
  badRequests       \* datagrams received on the request port that are no Request

serverVars == <<srvVariant, is_running, server_udp_port, server_tcp_port,
                offer_packet, udpSock, tcpSock, udpBoundPort, tcpBoundPort,
                bcastPc, dispPc, acceptors, offers, nOffers, accepted,
                dispatched, tcpWorkers, udpWorkers, abortedWorkers,
                bcastFailed, stopRequested, badRequests>>

(***************************************************************************)
(* A test round of clienttest.py: main starts one thread per transfer,     *)
(* every thread runs tcp_transfer or udp_transfer on a socket of its own.  *)
(***************************************************************************)
VARIABLES
  roundPc,              \* main: "idle" | "testing" | "reported"
  roundNo,              \* rounds started so far in this run
  num_tcp_connections,  \* K, read from the user
  num_udp_connections,  \* J, read from the user
  test_file_size,       \* file_size, read from the user
  threads,              \* how many threads main has started in this round
  session,              \* worker -> its pc and its local counters
  served,               \* worker -> what the server sent on its connection
                        \* or to the address of its socket
  results,              \* the list shared by the workers of the round
  tcp_results,          \* stats.tcp_results (module-level object)
  udp_results,          \* stats.udp_results
  displayed,            \* what main printed at the end of the last round
  csv                   \* what save_statistics_to_csv wrote last

roundVars == <<roundPc, roundNo, num_tcp_connections, num_udp_connections,
               test_file_size, threads, session, served, results,
               tcp_results, udp_results, displayed, csv>>

(***************************************************************************)
(* One message on its way from the side that packs it to the side that     *)
(* unpacks it.                                                             *)
(***************************************************************************)
VARIABLES
  msgKind,     \* "offer" | "request" | "payload"
  msgFields,   \* the field values handed to struct.pack
  txSide,      \* the variant that packs
  rxSide,      \* the variant that unpacks
  wireData,    \* the bytes of the datagram
  decoded,     \* what the receiving side got out of struct.unpack
  codecPc      \* "built" | "sent" | "received"

codecVars == <<msgKind, msgFields, txSide, rxSide, wireData, decoded, codecPc>>

(***************************************************************************)
(* One stream worker of a server and the request text it is handed.        *)
(***************************************************************************)
VARIABLES
  rqSrv,        \* the server variant
  rqText,       \* the text the client sends on the connection
  rqPc,         \* "read" | "more" | "send" | "udp" | "return"
  rqConn,       \* "open" | "closed" : the worker's socket
  rqSize,       \* the parsed size, NoneValue before
  rqSent,       \* bytes written to the connection
  rqDatagrams,  \* Server.py: Payload datagrams sent after the stream
  rqError       \* the except branch was taken

requestVars == <<rqSrv, rqText, rqPc, rqConn, rqSize, rqSent, rqDatagrams,
                 rqError>>

(***************************************************************************)
(* One throughput computation: the two readings of the clock around a      *)
(* transfer and the division that follows.  Times are in nanoseconds.      *)
(***************************************************************************)
VARIABLES
  mtSite,      \* the place in the program that computes the speed
  mtSize,      \* the size of the session
  mtDone,      \* the session moved all its bytes
  mtStart,     \* start_time = time.time()
  mtEnd,       \* end_time = time.time(), NoneValue before
  mtPc,        \* "running" | "ended" | "computed" | "raised"
  mtDuration,  \* the divisor
  mtSpeedNum   \* the dividend

meterVars == <<mtSite, mtSize, mtDone, mtStart, mtEnd, mtPc, mtDuration,
               mtSpeedNum>>

(***************************************************************************)
(* The Requests of several client sockets at one server and the Payloads   *)
(* sent in answer.                                                         *)
(***************************************************************************)
VARIABLES
  paSrv,        \* the server variant
  paSize,       \* client socket -> the size it asks for
  paValid,      \* client socket -> its Request passes the server's tests
  paCli,        \* client socket -> "idle" | "sent" | "received"
  paReqNet,     \* Requests on their way to the server
  client_addr,  \* the dispatcher's local: the sender of the last datagram
  paWorkers,    \* the threads started so far, with their arguments
  paNet,        \* Payloads on their way, each with its destination
  paInbox       \* client socket -> the Payloads recvfrom returned on it

addrVars == <<paSrv, paSize, paValid, paCli, paReqNet, client_addr,
              paWorkers, paNet, paInbox>>

(***************************************************************************)
(* The datagram transfers client.py runs one after the other on one        *)
(* SpeedTestClient object: the main thread, the receive thread of every    *)
(* transfer, and the fields of the object they share.                      *)
(***************************************************************************)
VARIABLES
  sqXfer,        \* the transfer run_speed_test is in, 0 before the first
  sqMainPc,      \* "idle" | "sleeping" | "join" | "joined" | "reported"
  sqThread,      \* transfer -> "none" | "running" | "broke" (the break
                 \* after a second of silence) | "left" (the loop test or
                 \* the except branch)
  sqSockOpen,    \* transfer -> its socket is open
  sqKeep,        \* self.keep_receiving
  sqTotal,       \* self.total_segments
  sqSegments,    \* self.received_segments
  sqBytes,       \* self.udp_bytes_received
  sqCounted,     \* the datagrams counted into the fields since their reset
  sqToSend,      \* transfer -> the next segment the server sends for it
  sqNet,         \* Payloads on their way, each to the socket of its transfer
  sqReports      \* what the main thread read for each transfer

seqVars == <<sqXfer, sqMainPc, sqThread, sqSockOpen, sqKeep, sqTotal,
             sqSegments, sqBytes, sqCounted, sqToSend, sqNet, sqReports>>

vars == <<streamVars, dgramVars, discVars, serverVars, roundVars,
         codecVars, requestVars, meterVars, addrVars, seqVars>>

notStream == <<dgramVars, discVars, serverVars, roundVars, codecVars, requestVars, meterVars, addrVars, seqVars>>
notDgram == <<streamVars, discVars, serverVars, roundVars, codecVars, requestVars, meterVars, addrVars, seqVars>>
notDisc == <<streamVars, dgramVars, serverVars, roundVars, codecVars, requestVars, meterVars, addrVars, seqVars>>
notServer == <<streamVars, dgramVars, discVars, roundVars, codecVars, requestVars, meterVars, addrVars, seqVars>>
notRound == <<streamVars, dgramVars, discVars, serverVars, codecVars, requestVars, meterVars, addrVars, seqVars>>
notCodec == <<streamVars, dgramVars, discVars, serverVars, roundVars, requestVars, meterVars, addrVars, seqVars>>
notRequest == <<streamVars, dgramVars, discVars, serverVars, roundVars, codecVars, meterVars, addrVars, seqVars>>
notMeter == <<streamVars, dgramVars, discVars, serverVars, roundVars, codecVars, requestVars, addrVars, seqVars>>
notAddr == <<streamVars, dgramVars, discVars, serverVars, roundVars, codecVars, requestVars, meterVars, seqVars>>
notSeq == <<streamVars, dgramVars, discVars, serverVars, roundVars, codecVars, requestVars, meterVars, addrVars>>

StreamServers == {"server.py", "servertest.py"}
StreamClients == {"client.py", "clienttest.py"}

NoRecord == [made |-> FALSE, bytes |-> 0, bits |-> 0]

InitStream ==
  /\ tcpSrv \in StreamServers
  /\ tcpCli \in StreamClients
  /\ file_size \in Sizes
  /\ c2s = <<>>
  /\ s2c = 0
  /\ broken = FALSE
  /\ srvPc = "read"
  /\ data = <<>>
  /\ requested_size = 0
  /\ bytes_sent = 0
  /\ writes = <<>>
  /\ srvError = FALSE
  /\ cliPc = "start"
  /\ bytes_received = 0
  /\ tcp_record = NoRecord

(* client.py sends f"{file_size}\n", clienttest.py sends str(file_size) *)
SizeToken(cli, n) == IF cli = "client.py" THEN Append(Str(n), NL) ELSE Str(n)

RecvBuf(cli) == IF cli = "client.py" THEN ClientRecvBuf ELSE ClientTestRecvBuf

(* what one recv(bufsize) may return when avail bytes are queued: all that *)
(* fits, or a short read                                                   *)
RecvSizes(avail, bufsize) ==
  { Min(avail, bufsize), (Min(avail, bufsize) + 1) \div 2 }

(* server.py 156-160, servertest.py 146-153: decode().strip(), int(), and  *)
(* the start of the send loop; an empty text (servertest.py) or a text     *)
(* that is no integer ends the worker                                      *)
SrvParse(text) ==
  LET line == Strip(text) IN
  IF tcpSrv = "servertest.py" /\ line = <<>>
  THEN /\ srvPc' = "closed"
       /\ UNCHANGED <<requested_size, srvError>>
  ELSE IF IsDecimal(line)
  THEN /\ requested_size' = IntOf(line)
       /\ srvPc' = "send"
       /\ UNCHANGED srvError
  ELSE /\ srvError' = TRUE
       /\ srvPc' = "closed"
       /\ UNCHANGED requested_size

(* one recv(1024) of the worker while it reads the size token *)
SrvRecv ==
  /\ srvPc = "read"
  /\ ~broken
  /\ c2s # <<>>
  /\ \E n \in 1..Min(Len(c2s), 1024) :
       LET chunk == SubSeq(c2s, 1, n)
           text == data \o chunk IN
       /\ c2s' = SubSeq(c2s, n + 1, Len(c2s))
       /\ data' = text
       /\ IF tcpSrv = "server.py" /\ NL \notin { text[i] : i \in 1..Len(text) }
          THEN UNCHANGED <<srvPc, requested_size, srvError>>
          ELSE SrvParse(text)
  /\ UNCHANGED <<tcpSrv, tcpCli, file_size, s2c, broken, bytes_sent, writes,
                 cliPc, bytes_received>>
  /\ UNCHANGED tcp_record
  /\ UNCHANGED notStream

(* recv returns b'' : the client closed its side *)
SrvRecvEOF ==
  /\ srvPc = "read"
  /\ ~broken
  /\ c2s = <<>>
  /\ cliPc = "done"
  /\ SrvParse(data)
  /\ UNCHANGED <<tcpSrv, tcpCli, file_size, c2s, s2c, broken, data, bytes_sent,
                 writes, cliPc, bytes_received>>
  /\ UNCHANGED tcp_record
  /\ UNCHANGED notStream

(* recv or sendall raises: except branch, then finally: close *)
SrvIOError ==
  /\ srvPc \in {"read", "send"}
  /\ broken
  /\ srvPc = "send" => bytes_sent < requested_size
  /\ srvError' = TRUE
  /\ srvPc' = "closed"
  /\ UNCHANGED <<tcpSrv, tcpCli, file_size, c2s, s2c, broken, data,
                 requested_size, bytes_sent, writes, cliPc, bytes_received>>
  /\ UNCHANGED tcp_record
  /\ UNCHANGED notStream

(* a send loop that always writes a whole chunk *)
SendSizeWholeChunk(remaining) == CHUNK_SIZE

(* send_size = min(chunk_size, remaining) *)
SendSize(remaining) == Min(CHUNK_SIZE, remaining)

(* one iteration of the send loop *)
SrvSend ==
  /\ srvPc = "send"
  /\ ~broken
  /\ bytes_sent < requested_size
  /\ LET send_size == SendSize(requested_size - bytes_sent) IN
       /\ s2c' = s2c + send_size
       /\ bytes_sent' = bytes_sent + send_size
       /\ writes' = Append(writes, send_size)
  /\ UNCHANGED <<tcpSrv, tcpCli, file_size, c2s, broken, srvPc, data,
                 requested_size, srvError, cliPc, bytes_received>>
  /\ UNCHANGED tcp_record
  /\ UNCHANGED notStream

(* the send loop is over: finally: close *)
SrvClose ==
  /\ srvPc = "send"
  /\ ~(bytes_sent < requested_size)
  /\ srvPc' = "closed"
  /\ UNCHANGED <<tcpSrv, tcpCli, file_size, c2s, s2c, broken, data,
                 requested_size, bytes_sent, writes, srvError, cliPc,
                 bytes_received>>
  /\ UNCHANGED tcp_record
  /\ UNCHANGED notStream

(* connect, sendall(token), and the first test of the receive loop *)
CliConnectSend ==
  /\ cliPc = "start"
  /\ c2s' = SizeToken(tcpCli, file_size)
  /\ cliPc' = IF bytes_received < file_size THEN "recv" ELSE "done"
  /\ UNCHANGED <<tcpSrv, tcpCli, file_size, s2c, broken, srvPc, data,
                 requested_size, bytes_sent, writes, srvError, bytes_received>>
  /\ UNCHANGED tcp_record
  /\ UNCHANGED notStream

(* a receive loop that counts the buffer size instead of len(chunk) *)
AccumulateBufSize(received, chunkLen) == received + ClientTestRecvBuf

(* bytes_received = len(buffer) / received_bytes += len(chunk) *)
Accumulate(received, chunkLen) == received + chunkLen

(* one recv of the receive loop that returns data *)
CliRecv ==
  /\ cliPc = "recv"
  /\ ~broken
  /\ s2c > 0
  /\ \E k \in RecvSizes(s2c, RecvBuf(tcpCli)) :
       /\ s2c' = s2c - k
       /\ bytes_received' = Accumulate(bytes_received, k)
       /\ cliPc' = IF Accumulate(bytes_received, k) < file_size
                   THEN "recv" ELSE "done"
  /\ UNCHANGED <<tcpSrv, tcpCli, file_size, c2s, broken, srvPc, data,
                 requested_size, bytes_sent, writes, srvError>>
  /\ UNCHANGED tcp_record
  /\ UNCHANGED notStream

(* recv returns b'' : the server closed, nothing is queued *)
CliRecvEOF ==
  /\ cliPc = "recv"
  /\ ~broken
  /\ s2c = 0
  /\ srvPc = "closed"
  /\ cliPc' = "done"
  /\ UNCHANGED <<tcpSrv, tcpCli, file_size, c2s, s2c, broken, srvPc, data,
                 requested_size, bytes_sent, writes, srvError, bytes_received>>
  /\ UNCHANGED tcp_record
  /\ UNCHANGED notStream

(* recv raises on a reset connection *)
CliRecvError ==
  /\ cliPc = "recv"
  /\ broken
  /\ cliPc' = "failed"
  /\ UNCHANGED <<tcpSrv, tcpCli, file_size, c2s, s2c, broken, srvPc, data,
                 requested_size, bytes_sent, writes, srvError, bytes_received>>
  /\ UNCHANGED tcp_record
  /\ UNCHANGED notStream

(* the network resets the connection while it is in use *)
NetBreak ==
  /\ ~broken
  /\ cliPc = "recv"
  /\ srvPc # "closed"
  /\ broken' = TRUE
  /\ UNCHANGED <<tcpSrv, tcpCli, file_size, c2s, s2c, srvPc, data,
                 requested_size, bytes_sent, writes, srvError, cliPc,
                 bytes_received>>
  /\ UNCHANGED tcp_record
  /\ UNCHANGED notStream

(* the byte count the result is computed from:                            *)
(* client.py 130: bytes_received * 8; clienttest.py 184, 188:              *)
(* segment_file_size * 8, segment_file_size                                *)
RecordBytes(cli, requested, received) ==
  IF cli = "client.py" THEN received ELSE requested

(* client.py 126-133, clienttest.py 181-188: the receive loop is over, the *)
(* speed is computed (its numerator, in bits, is kept) and reported        *)
CliRecord ==
  /\ cliPc = "done"
  /\ ~tcp_record.made
  /\ tcp_record' =
       [made |-> TRUE,
        bytes |-> RecordBytes(tcpCli, file_size, bytes_received),
        bits |-> RecordBytes(tcpCli, file_size, bytes_received) * 8]
  /\ UNCHANGED <<tcpSrv, tcpCli, file_size, c2s, s2c, broken, srvPc, data,
                 requested_size, bytes_sent, writes, srvError, cliPc,
                 bytes_received>>
  /\ UNCHANGED notStream

NextStream ==
  \/ SrvRecv \/ SrvRecvEOF \/ SrvIOError \/ SrvSend \/ SrvClose
  \/ CliConnectSend \/ CliRecv \/ CliRecvEOF \/ CliRecvError \/ NetBreak \/ CliRecord

(***************************************************************************)
(* The datagram session: the server's send worker, the network, and the    *)
(* client's receive loop.                                                  *)
(***************************************************************************)
DatagramServers == {"server.py", "servertest.py"}
DatagramClients == {"client.py", "clienttest.py"}

UdpSizes == { k * CHUNK_SIZE + r : k \in 0..MaxSegments, r \in {0, 1} }

NoReport == [made |-> FALSE, received |-> 0, total |-> 0, pctNum |-> 0, pctDen |-> 1]

(* datagrams that are no Payload of the session: too short for the header, *)
(* a wrong cookie, a wrong message type                                    *)
StrayDatagrams ==
  { [cookie |-> MAGIC_COOKIE, msg_type |-> MSG_TYPE_PAYLOAD, total |-> 1,
     seg |-> 7, len |-> PayloadHeaderLen - 1],
    [cookie |-> <<0, 0, 0, 0>>, msg_type |-> MSG_TYPE_PAYLOAD, total |-> 1,
     seg |-> 7, len |-> PayloadHeaderLen + 1],
    [cookie |-> MAGIC_COOKIE, msg_type |-> MSG_TYPE_OFFER, total |-> 1,
     seg |-> 7, len |-> PayloadHeaderLen + 1] }

(* seconds without a datagram after which the receive loop gives up:      *)
(* client.py 224 (> 1.0), clienttest.py 225 (settimeout(1))                *)
IdleWindow == 1

(* client.py 174: time.sleep(2) *)
SleepTime == 2

InitDatagram ==
  /\ udpSrv \in DatagramServers
  /\ udpCli \in DatagramClients
  /\ udp_file_size \in UdpSizes
  /\ reqState = "unsent"
  /\ udpSrvPc = "wait"
  /\ srv_total = 0
  /\ seg_num = 0
  /\ sentLog = <<>>
  /\ net = {}
  /\ dups = 0
  /\ strays = 0
  /\ udpMainPc = "start"
  /\ udpRecvPc = "idle"
  /\ keep_receiving = TRUE
  /\ total_segments = IF udpCli = "client.py" THEN 0 ELSE NoneValue
  /\ received_segments = {}
  /\ received_count = 0
  /\ udp_bytes_received = 0
  /\ seenIdx = {}
  /\ report = NoReport
  /\ silence = 0
  /\ slept = 0

(* a segment count one too high on exact multiples of the chunk size *)
TotalSegmentsOffByOne(srv, n) == n \div CHUNK_SIZE + 1

(* server.py 200: (file_size + chunk_size - 1) // chunk_size               *)
(* servertest.py 102: size // CHUNK + (1 if size % CHUNK != 0 else 0)      *)
TotalSegments(srv, n) ==
  IF srv = "server.py"
  THEN (n + CHUNK_SIZE - 1) \div CHUNK_SIZE
  ELSE (n \div CHUNK_SIZE) + (IF n % CHUNK_SIZE # 0 THEN 1 ELSE 0)

(* every segment carries a whole chunk, the last one too *)
SegSizeWholeChunk(n, i) == CHUNK_SIZE

(* seg_size = min(chunk_size, file_size - seg_num * chunk_size):           *)
(* server.py 211, servertest.py 105, Server.py 149                         *)
SegSize(n, i) == Min(CHUNK_SIZE, n - i * CHUNK_SIZE)

(* header + payload of segment i *)
PayloadDatagram(tot, i, n) ==
  [cookie |-> MAGIC_COOKIE, msg_type |-> MSG_TYPE_PAYLOAD, total |-> tot,
   seg |-> i, len |-> PayloadHeaderLen + SegSize(n, i)]

(* the Request is lost on its way *)
UdpRequestLost ==
  /\ reqState = "inflight"
  /\ reqState' = "lost"
  /\ UNCHANGED <<udpSrv, udpCli, udp_file_size, udpSrvPc, srv_total, seg_num,
                 sentLog, net, dups, strays, udpMainPc, udpRecvPc,
                 keep_receiving, total_segments, received_segments,
                 received_count, udp_bytes_received, seenIdx, report>>
  /\ UNCHANGED <<silence, slept>>
  /\ UNCHANGED notDgram

(* the valid Request reaches the server, which starts the send worker *)
UdpSrvStart ==
  /\ reqState = "inflight"
  /\ reqState' = "received"
  /\ udpSrvPc' = "sending"
  /\ srv_total' = TotalSegments(udpSrv, udp_file_size)
  /\ seg_num' = 0
  /\ UNCHANGED <<udpSrv, udpCli, udp_file_size, sentLog, net, dups, strays,
                 udpMainPc, udpRecvPc, keep_receiving, total_segments,
                 received_segments, received_count, udp_bytes_received,
                 seenIdx, report>>
  /\ UNCHANGED <<silence, slept>>
  /\ UNCHANGED notDgram

(* one iteration of the send loop: pack the header, sendto *)
UdpSrvSend ==
  /\ udpSrvPc = "sending"
  /\ seg_num < srv_total
  /\ LET packet == PayloadDatagram(srv_total, seg_num, udp_file_size) IN
       /\ sentLog' = Append(sentLog, packet)
       /\ net' = net \cup {packet}
  /\ seg_num' = seg_num + 1
  /\ UNCHANGED <<udpSrv, udpCli, udp_file_size, reqState, udpSrvPc, srv_total,
                 dups, strays, udpMainPc, udpRecvPc, keep_receiving,
                 total_segments, received_segments, received_count,
                 udp_bytes_received, seenIdx, report>>
  /\ UNCHANGED <<silence, slept>>
  /\ UNCHANGED notDgram

(* sendto raises: the worker ends where it is *)
UdpSrvSendFail ==
  /\ udpSrvPc = "sending"
  /\ seg_num < srv_total
  /\ udpSrvPc' = "failed"
  /\ UNCHANGED <<udpSrv, udpCli, udp_file_size, reqState, srv_total, seg_num,
                 sentLog, net, dups, strays, udpMainPc, udpRecvPc,
                 keep_receiving, total_segments, received_segments,
                 received_count, udp_bytes_received, seenIdx, report>>
  /\ UNCHANGED <<silence, slept>>
  /\ UNCHANGED notDgram

(* range(total_segments) is exhausted *)
UdpSrvFinish ==
  /\ udpSrvPc = "sending"
  /\ ~(seg_num < srv_total)
  /\ udpSrvPc' = "done"
  /\ UNCHANGED <<udpSrv, udpCli, udp_file_size, reqState, srv_total, seg_num,
                 sentLog, net, dups, strays, udpMainPc, udpRecvPc,
                 keep_receiving, total_segments, received_segments,
                 received_count, udp_bytes_received, seenIdx, report>>
  /\ UNCHANGED <<silence, slept>>
  /\ UNCHANGED notDgram

(* the network drops a datagram *)
NetLose ==
  /\ \E d \in net : net' = net \ {d}
  /\ UNCHANGED <<udpSrv, udpCli, udp_file_size, reqState, udpSrvPc, srv_total,
                 seg_num, sentLog, dups, strays, udpMainPc, udpRecvPc,
                 keep_receiving, total_segments, received_segments,
                 received_count, udp_bytes_received, seenIdx, report>>
  /\ UNCHANGED <<silence, slept>>
  /\ UNCHANGED notDgram

(* client.py 147-170, clienttest.py 213-226: open the socket, reset the    *)
(* session's fields, start receiving, send the Request                     *)
UdpClientStart ==
  /\ udpMainPc = "start"
  /\ udpMainPc' = "wait"
  /\ udpRecvPc' = "loop"
  /\ keep_receiving' = TRUE
  /\ received_segments' = {}
  /\ received_count' = 0
  /\ total_segments' = IF udpCli = "client.py" THEN 0 ELSE NoneValue
  /\ udp_bytes_received' = 0
  /\ reqState' = "inflight"
  /\ UNCHANGED <<udpSrv, udpCli, udp_file_size, udpSrvPc, srv_total, seg_num,
                 sentLog, net, dups, strays, seenIdx, report>>
  /\ silence' = 0
  /\ slept' = 0
  /\ UNCHANGED notDgram

IsPayload(d) ==
  /\ d.len >= PayloadHeaderLen
  /\ d.cookie = MAGIC_COOKIE
  /\ d.msg_type = MSG_TYPE_PAYLOAD

(* the body of one receive-loop iteration whose recvfrom returned d *)
ClientProcess(d) ==
  IF udpCli = "client.py"
  THEN /\ udp_bytes_received' = udp_bytes_received + d.len
       /\ IF IsPayload(d)
          THEN /\ total_segments' = d.total
               /\ received_segments' = received_segments \cup {d.seg}
          ELSE UNCHANGED <<total_segments, received_segments>>
       /\ UNCHANGED <<received_count, udpRecvPc>>
  ELSE /\ IF IsPayload(d)
          THEN /\ total_segments' = d.total
               /\ received_count' = received_count + 1
               /\ udpRecvPc' = IF received_count + 1 = d.total
                               THEN "ended" ELSE "loop"
          ELSE UNCHANGED <<total_segments, received_count, udpRecvPc>>
       /\ UNCHANGED <<udp_bytes_received, received_segments>>

(* recvfrom returns a datagram of the session; the network may have made a *)
(* copy of it that arrives later                                           *)
UdpClientRecv ==
  /\ udpRecvPc = "loop"
  /\ udpMainPc = "wait"
  /\ \E d \in net :
       /\ \/ net' = net \ {d} /\ dups' = dups
          \/ dups < MaxDups /\ net' = net /\ dups' = dups + 1
       /\ ClientProcess(d)
       /\ seenIdx' = IF IsPayload(d) THEN seenIdx \cup {d.seg} ELSE seenIdx
  /\ UNCHANGED <<udpSrv, udpCli, udp_file_size, reqState, udpSrvPc, srv_total,
                 seg_num, sentLog, strays, udpMainPc, keep_receiving, report>>
  /\ silence' = 0
  /\ UNCHANGED slept
  /\ UNCHANGED notDgram

(* recvfrom returns a datagram that is no Payload of the session *)
UdpClientRecvStray ==
  /\ udpRecvPc = "loop"
  /\ udpMainPc = "wait"
  /\ strays < MaxStrays
  /\ strays' = strays + 1
  /\ \E d \in StrayDatagrams :
       /\ ClientProcess(d)
       /\ seenIdx' = IF IsPayload(d) THEN seenIdx \cup {d.seg} ELSE seenIdx
  /\ UNCHANGED <<udpSrv, udpCli, udp_file_size, reqState, udpSrvPc, srv_total,
                 seg_num, sentLog, net, dups, udpMainPc, keep_receiving, report>>
  /\ silence' = 0
  /\ UNCHANGED slept
  /\ UNCHANGED notDgram

(* one second goes by with no datagram handed to the receive loop:        *)
(* client.py 203, 221-224 (time since last_received_time), 174 (sleep);    *)
(* clienttest.py 225 (settimeout(1))                                       *)
UdpTick ==
  /\ udpMainPc = "wait"
  /\ \/ udpRecvPc = "loop" /\ silence < IdleWindow
     \/ udpCli = "client.py" /\ slept < SleepTime
  /\ silence' = IF udpRecvPc = "loop" THEN Min(silence + 1, IdleWindow)
                ELSE silence
  /\ slept' = IF udpCli = "client.py" THEN Min(slept + 1, SleepTime) ELSE slept
  /\ UNCHANGED <<udpSrv, udpCli, udp_file_size, reqState, udpSrvPc, srv_total,
                 seg_num, sentLog, net, dups, strays, udpMainPc, udpRecvPc,
                 keep_receiving, total_segments, received_segments,
                 received_count, udp_bytes_received, seenIdx, report>>
  /\ UNCHANGED notDgram

(* client.py 221-226: socket.timeout and more than 1 s since the last      *)
(* datagram; clienttest.py 244-245: socket.timeout after 1 s               *)
UdpClientIdleBreak ==
  /\ udpRecvPc = "loop"
  /\ udpMainPc = "wait"
  /\ silence >= IdleWindow
  /\ udpRecvPc' = "ended"
  /\ UNCHANGED <<udpSrv, udpCli, udp_file_size, reqState, udpSrvPc, srv_total,
                 seg_num, sentLog, net, dups, strays, udpMainPc,
                 keep_receiving, total_segments, received_segments,
                 received_count, udp_bytes_received, seenIdx, report>>
  /\ UNCHANGED <<silence, slept>>
  /\ UNCHANGED notDgram

(* client.py 174-178: sleep(2) is over; keep_receiving = False; close() *)
UdpClientStop ==
  /\ udpCli = "client.py"
  /\ udpMainPc = "wait"
  /\ slept >= SleepTime
  /\ keep_receiving' = FALSE
  /\ udpMainPc' = "join"
  /\ UNCHANGED <<udpSrv, udpCli, udp_file_size, reqState, udpSrvPc, srv_total,
                 seg_num, sentLog, net, dups, strays, udpRecvPc,
                 total_segments, received_segments, received_count,
                 udp_bytes_received, seenIdx, report>>
  /\ UNCHANGED <<silence, slept>>
  /\ UNCHANGED notDgram

(* client.py 206, 227-229: the receive thread sees the cleared flag or the *)
(* closed socket                                                           *)
UdpRecvThreadExit ==
  /\ udpCli = "client.py"
  /\ udpRecvPc = "loop"
  /\ ~keep_receiving
  /\ udpRecvPc' = "ended"
  /\ UNCHANGED <<udpSrv, udpCli, udp_file_size, reqState, udpSrvPc, srv_total,
                 seg_num, sentLog, net, dups, strays, udpMainPc,
                 keep_receiving, total_segments, received_segments,
                 received_count, udp_bytes_received, seenIdx, report>>
  /\ UNCHANGED <<silence, slept>>
  /\ UNCHANGED notDgram

(* a report that takes the quotient by total_segments in every case *)
MakeReportDividing ==
  IF udpCli = "client.py"
  THEN [made |-> TRUE, received |-> Cardinality(received_segments),
        total |-> total_segments,
        pctNum |-> 100 * Cardinality(received_segments),
        pctDen |-> total_segments]
  ELSE [made |-> TRUE, received |-> received_count,
        total |-> total_segments,
        pctNum |-> 100 * received_count, pctDen |-> total_segments]

(* client.py 187-190: success_percent                                      *)
(* clienttest.py 251-252: (received_segments / total_segments) * 100       *)
(* the percentage is kept as the fraction pctNum / pctDen                  *)
MakeReport ==
  IF udpCli = "client.py"
  THEN IF total_segments = 0
       THEN [made |-> TRUE, received |-> Cardinality(received_segments),
             total |-> total_segments, pctNum |-> 0, pctDen |-> 1]
       ELSE [made |-> TRUE, received |-> Cardinality(received_segments),
             total |-> total_segments,
             pctNum |-> 100 * Cardinality(received_segments),
             pctDen |-> total_segments]
  ELSE IF total_segments = NoneValue \/ total_segments = 0
       THEN [made |-> TRUE, received |-> received_count,
             total |-> total_segments, pctNum |-> 0, pctDen |-> 1]
       ELSE [made |-> TRUE, received |-> received_count,
             total |-> total_segments,
             pctNum |-> 100 * received_count, pctDen |-> total_segments]

(* client.py 179-194: join, then the statistics; clienttest.py 247-257 *)
UdpClientReport ==
  /\ udpRecvPc = "ended"
  /\ udpMainPc = IF udpCli = "client.py" THEN "join" ELSE "wait"
  /\ report' = MakeReport
  /\ udpMainPc' = "done"
  /\ UNCHANGED <<udpSrv, udpCli, udp_file_size, reqState, udpSrvPc, srv_total,
                 seg_num, sentLog, net, dups, strays, udpRecvPc,
                 keep_receiving, total_segments, received_segments,
                 received_count, udp_bytes_received, seenIdx>>
  /\ UNCHANGED <<silence, slept>>
  /\ UNCHANGED notDgram

NextDatagram ==
  \/ UdpRequestLost \/ UdpSrvStart \/ UdpSrvSend \/ UdpSrvSendFail
  \/ UdpSrvFinish \/ NetLose \/ UdpClientStart \/ UdpClientRecv
  \/ UdpClientRecvStray \/ UdpClientIdleBreak \/ UdpClientStop
  \/ UdpRecvThreadExit \/ UdpClientReport \/ UdpTick

(***************************************************************************)
(* Discovery: listen_for_offer (client.py), receive_broadcast and the loop *)
(* of main around it (clienttest.py).                                      *)
(***************************************************************************)
DiscoveryClients == {"client.py", "clienttest.py"}

Datagram(n, c, t, u, p, ip) ==
  [len |-> n, cookie |-> c, msg_type |-> t, udp_port |-> u, tcp_port |-> p,
   ip |-> ip]

(* what may reach the discovery port: the Offers of two servers (the ports *)
(* of servertest.py, and ports of server.py's random range), the 7-byte    *)
(* offer of Server.py, an offer followed by one more byte, a wrong cookie, *)
(* a wrong message type                                                    *)
DiscoveryDatagrams ==
  { Datagram(OfferLen, MAGIC_COOKIE, MSG_TYPE_OFFER, 20001, 20002, "192.168.1.10"),
    Datagram(OfferLen, MAGIC_COOKIE, MSG_TYPE_OFFER, 10000, 60000, "192.168.1.11"),
    Datagram(OfferLen - 2, MAGIC_COOKIE, MSG_TYPE_OFFER, 0, 1024, "192.168.1.12"),
    Datagram(OfferLen + 1, MAGIC_COOKIE, MSG_TYPE_OFFER, 20001, 20002, "192.168.1.13"),
    Datagram(OfferLen, <<0, 0, 0, 0>>, MSG_TYPE_OFFER, 20001, 20002, "192.168.1.14"),
    Datagram(OfferLen, MAGIC_COOKIE, MSG_TYPE_REQUEST, 20001, 20002, "192.168.1.15") }

NoDatagram == Datagram(0, <<0, 0, 0, 0>>, 0, 0, 0, "None")
NoEndpoint == [ip |-> "None", udp_port |-> NoneValue, tcp_port |-> NoneValue]
EndpointOf(d) == [ip |-> d.ip, udp_port |-> d.udp_port, tcp_port |-> d.tcp_port]

(* the layout of section 6: 9 bytes, the cookie, type 0x02 *)
IsValidOffer(d) ==
  d.len = OfferLen /\ d.cookie = MAGIC_COOKIE /\ d.msg_type = MSG_TYPE_OFFER

InitDiscovery ==
  /\ discCli \in DiscoveryClients
  /\ discPc = "idle"
  /\ endpoint = NoEndpoint
  /\ outcome = "none"
  /\ waited = 0
  /\ arrivals = 0
  /\ lastDgram = NoDatagram
  /\ firstValid = NoDatagram
  /\ discRound = 0

(* client.py 237 (called once); clienttest.py 276-279 (every turn of the   *)
(* loop of main): bind the discovery port and wait                         *)
DiscStart ==
  /\ discPc = "idle"
  /\ discRound < (IF discCli = "client.py" THEN 1 ELSE MaxRounds)
  /\ discPc' = "listening"
  /\ discRound' = discRound + 1
  /\ waited' = 0
  /\ firstValid' = NoDatagram
  /\ UNCHANGED <<discCli, endpoint, outcome, arrivals, lastDgram>>
  /\ UNCHANGED notDisc

(* struct.unpack('>IBHH', data) raises struct.error unless len(data) = 9 *)
UnpackOfferFails(d) == d.len # OfferLen

(* a listener that keeps receiving after a valid Offer *)
ListenerStepNoBreak(d) ==
  IF d.len >= OfferLen /\ ~UnpackOfferFails(d)
     /\ d.cookie = MAGIC_COOKIE /\ d.msg_type = MSG_TYPE_OFFER
  THEN /\ endpoint' = EndpointOf(d) /\ outcome' = "offer"
       /\ UNCHANGED discPc
  ELSE UNCHANGED <<discPc, endpoint, outcome>>

(* what the listener does with the datagram d that recvfrom returned *)
ListenerStep(d) ==
  IF discCli = "client.py"
  THEN \* client.py 68-77
       IF d.len >= OfferLen
       THEN IF UnpackOfferFails(d)
            THEN /\ discPc' = "crashed" /\ outcome' = "struct.error"
                 /\ UNCHANGED endpoint
            ELSE IF d.cookie = MAGIC_COOKIE /\ d.msg_type = MSG_TYPE_OFFER
                 THEN /\ endpoint' = EndpointOf(d)
                      /\ discPc' = "found" /\ outcome' = "offer"
                 ELSE UNCHANGED <<discPc, endpoint, outcome>>
       ELSE UNCHANGED <<discPc, endpoint, outcome>>
  ELSE \* clienttest.py 125-146, 279-282
       IF UnpackOfferFails(d)
       THEN /\ endpoint' = NoEndpoint
            /\ discPc' = "idle" /\ outcome' = "struct.error"
       ELSE IF d.cookie = MAGIC_COOKIE /\ d.msg_type = MSG_TYPE_OFFER
            THEN /\ endpoint' = EndpointOf(d)
                 /\ discPc' = "found" /\ outcome' = "offer"
            ELSE /\ endpoint' = NoEndpoint
                 /\ discPc' = "idle" /\ outcome' = "mismatch"

(* recvfrom returns a datagram *)
DiscRecv ==
  /\ discPc = "listening"
  /\ arrivals < MaxArrivals
  /\ \E d \in DiscoveryDatagrams :
       /\ lastDgram' = d
       /\ firstValid' = IF IsValidOffer(d) /\ firstValid = NoDatagram
                        THEN d ELSE firstValid
       /\ ListenerStep(d)
  /\ arrivals' = arrivals + 1
  /\ UNCHANGED <<discCli, waited, discRound>>
  /\ UNCHANGED notDisc

(* a datagram reaches the discovery port while no listener is bound to it *)
DiscUnheard ==
  /\ discPc # "listening"
  /\ arrivals < MaxArrivals
  /\ \E d \in DiscoveryDatagrams : lastDgram' = d
  /\ arrivals' = arrivals + 1
  /\ UNCHANGED <<discCli, discPc, endpoint, outcome, waited, firstValid,
                 discRound>>
  /\ UNCHANGED notDisc

(* one second passes in recvfrom; clienttest.py 123 bounds the wait *)
DiscTick ==
  /\ discPc = "listening"
  /\ waited < (IF discCli = "clienttest.py" THEN broadcast_timeout ELSE MaxWait)
  /\ waited' = waited + 1
  /\ UNCHANGED <<discCli, discPc, endpoint, outcome, arrivals, lastDgram,
                 firstValid, discRound>>
  /\ UNCHANGED notDisc

(* clienttest.py 138-146: socket.timeout, (None, None, None) *)
DiscTimeout ==
  /\ discCli = "clienttest.py"
  /\ discPc = "listening"
  /\ waited = broadcast_timeout
  /\ discPc' = "idle"
  /\ outcome' = "timeout"
  /\ endpoint' = NoEndpoint
  /\ UNCHANGED <<discCli, waited, arrivals, lastDgram, firstValid, discRound>>
  /\ UNCHANGED notDisc

(* client.py 240: run_speed_test with the endpoint of the offer;           *)
(* clienttest.py 284-313: the parameters are read and the threads started  *)
DiscBeginTest ==
  /\ discPc = "found"
  /\ discPc' = "testing"
  /\ UNCHANGED <<discCli, endpoint, outcome, waited, arrivals, lastDgram,
                 firstValid, discRound>>
  /\ UNCHANGED notDisc

(* clienttest.py 285-291: a parameter is no integer; the error is reported *)
(* and the loop goes on with the next discovery                            *)
DiscBadParameters ==
  /\ discCli = "clienttest.py"
  /\ discPc = "found"
  /\ discPc' = "idle"
  /\ outcome' = "bad parameters"
  /\ UNCHANGED <<discCli, endpoint, waited, arrivals, lastDgram, firstValid,
                 discRound>>
  /\ UNCHANGED notDisc

(* the transfers are over.  clienttest.py 316-317: every thread is joined; *)
(* client.py 88-94, 240: run_speed_test returns, main returns and the      *)
(* program ends                                                            *)
DiscTestsDone ==
  /\ discPc = "testing"
  /\ discPc' = IF discCli = "client.py" THEN "exited" ELSE "aggregating"
  /\ UNCHANGED <<discCli, endpoint, outcome, waited, arrivals, lastDgram,
                 firstValid, discRound>>
  /\ UNCHANGED notDisc

(* clienttest.py 320-334, 277: the results are printed and saved, and the  *)
(* while True loop starts over                                             *)
DiscRoundOver ==
  /\ discPc = "aggregating"
  /\ discPc' = "idle"
  /\ UNCHANGED <<discCli, endpoint, outcome, waited, arrivals, lastDgram,
                 firstValid, discRound>>
  /\ UNCHANGED notDisc

NextDiscovery ==
  \/ DiscStart \/ DiscRecv \/ DiscUnheard \/ DiscTick \/ DiscTimeout
  \/ DiscBeginTest \/ DiscBadParameters \/ DiscTestsDone \/ DiscRoundOver

(***************************************************************************)
(* The server: start (server.py), main (servertest.py), the script at the  *)
(* end of Server.py; the Offer Broadcaster, the Connection Acceptor and    *)
(* the Datagram Request Dispatcher.                                        *)
(***************************************************************************)
ServerVariants == {"server.py", "servertest.py", "Server.py"}

(* server.py 41-42: random.randint(10000, 60000); servertest.py 24-25;    *)
(* Server.py 34: random.randint(1024, 65535), no port for Requests         *)
UdpPortChoices(v) ==
  IF v = "server.py" THEN {10000, 60000}
  ELSE IF v = "servertest.py" THEN {SERVER_UDP_PORT}
  ELSE {NoneValue}

TcpPortChoices(v) ==
  IF v = "server.py" THEN {10000, 60000}
  ELSE IF v = "servertest.py" THEN {SERVER_TCP_PORT}
  ELSE {1024, 65535}

(* server.py 51-55 and servertest.py 63: '>IBHH'; Server.py 39: '>IBH' *)
BuildOffer(v, u, t) ==
  IF v = "Server.py"
  THEN Datagram(ServerPyOfferLen, MAGIC_COOKIE, MSG_TYPE_OFFER, NoneValue, t, "server")
  ELSE Datagram(OfferLen, MAGIC_COOKIE, MSG_TYPE_OFFER, u, t, "server")

(* the port the Offers are sent to: server.py 90, servertest.py 70,        *)
(* Server.py 64                                                            *)
(* client.py 65: s.bind(('', 13117)); clienttest.py 122:                   *)
(* clientSocket.bind(('', serverUDPPort))                                  *)
ListenPort(c) == IF c = "clienttest.py" THEN serverUDPPort ELSE BROADCAST_PORT

OfferDestination(v) == IF v = "servertest.py" THEN SERVER_UDP_PORT ELSE BROADCAST_PORT

(* datagrams that are no Request: a wrong length, a wrong cookie, a wrong   *)
(* message type                                                            *)
InvalidRequests ==
  { [len |-> l, cookie |-> c, msg_type |-> t] :
      l \in {RequestLen - 1, RequestLen, RequestLen + 1},
      c \in {MAGIC_COOKIE, <<0, 0, 0, 0>>},
      t \in {MSG_TYPE_REQUEST, MSG_TYPE_OFFER} }
  \ { [len |-> RequestLen, cookie |-> MAGIC_COOKIE,
       msg_type |-> MSG_TYPE_REQUEST] }

(* struct.unpack('>IBQ', data) raises unless data has exactly 13 bytes *)
UnpackRequestRaises(d) == d.len # RequestLen

InitServer ==
  /\ srvVariant \in ServerVariants
  /\ is_running = TRUE
  /\ server_udp_port \in UdpPortChoices(srvVariant)
  /\ server_tcp_port \in TcpPortChoices(srvVariant)
  /\ offer_packet = BuildOffer(srvVariant, server_udp_port, server_tcp_port)
  /\ udpSock = "new"
  /\ tcpSock = "new"
  /\ udpBoundPort = NoneValue
  /\ tcpBoundPort = NoneValue
  /\ bcastPc = "off"
  /\ dispPc = "off"
  /\ acceptors = 0
  /\ offers = {}
  /\ nOffers = 0
  /\ accepted = 0
  /\ dispatched = 0
  /\ tcpWorkers = 0
  /\ udpWorkers = 0
  /\ abortedWorkers = 0
  /\ bcastFailed = FALSE
  /\ stopRequested = FALSE
  /\ badRequests = 0

(* server.py 74-75: bind the request port, start udp_request_listener;     *)
(* servertest.py 190-191: bind                                             *)
BindUdp ==
  /\ srvVariant # "Server.py"
  /\ udpSock = "new"
  /\ ~stopRequested
  /\ udpSock' = "bound"
  /\ udpBoundPort' = server_udp_port
  /\ dispPc' = IF srvVariant = "server.py" THEN "running" ELSE dispPc
  /\ UNCHANGED <<srvVariant, is_running, server_udp_port, server_tcp_port,
                 offer_packet, tcpSock, tcpBoundPort, bcastPc, acceptors,
                 offers, nOffers, accepted, dispatched, tcpWorkers,
                 udpWorkers, abortedWorkers, bcastFailed, stopRequested>>
  /\ UNCHANGED badRequests
  /\ UNCHANGED notServer

(* server.py 78-87: bind, listen, start tcp_connection_listener, enter the *)
(* broadcast loop; servertest.py 199-218: bind, listen, start the three    *)
(* threads; Server.py 58-62: bind, listen, enter the broadcast loop        *)
BindTcp ==
  /\ tcpSock = "new"
  /\ srvVariant # "Server.py" => udpSock = "bound"
  /\ ~stopRequested
  /\ tcpSock' = "listening"
  /\ tcpBoundPort' = server_tcp_port
  /\ bcastPc' = "running"
  /\ acceptors' = IF srvVariant = "Server.py" THEN 0 ELSE 1
  /\ dispPc' = IF srvVariant = "servertest.py" THEN "running" ELSE dispPc
  /\ UNCHANGED <<srvVariant, is_running, server_udp_port, server_tcp_port,
                 offer_packet, udpSock, udpBoundPort, offers, nOffers,
                 accepted, dispatched, tcpWorkers, udpWorkers,
                 abortedWorkers, bcastFailed, stopRequested>>
  /\ UNCHANGED badRequests
  /\ UNCHANGED notServer

(* a broadcaster that runs from the start of the program, before the binds *)
BroadcastLoopFromStart == bcastPc # "ended"

(* the broadcast loop is reached only after the binds: server.py 74-87,    *)
(* servertest.py 190-206, Server.py 58-62                                  *)
BroadcastLoopEntered == bcastPc = "running"

(* one turn of the broadcast loop: sendto(offer) succeeds; Server.py 66    *)
(* starts one more handle_clients thread every turn                        *)
BroadcastOffer ==
  /\ BroadcastLoopEntered
  /\ srvVariant # "servertest.py" => is_running
  /\ nOffers < MaxOffers
  /\ offers' = offers \cup {[dgram |-> offer_packet,
                             dst_port |-> OfferDestination(srvVariant)]}
  /\ nOffers' = nOffers + 1
  /\ acceptors' = IF srvVariant = "Server.py" THEN acceptors + 1 ELSE acceptors
  /\ UNCHANGED <<srvVariant, is_running, server_udp_port, server_tcp_port,
                 offer_packet, udpSock, tcpSock, udpBoundPort, tcpBoundPort,
                 bcastPc, dispPc, accepted, dispatched, tcpWorkers,
                 udpWorkers, abortedWorkers, bcastFailed, stopRequested>>
  /\ UNCHANGED badRequests
  /\ UNCHANGED notServer

(* stop_server without the three close() calls: only the flag is cleared *)
StopFlagOnly ==
  /\ is_running' = FALSE
  /\ UNCHANGED <<udpSock, tcpSock>>

(* stop_server (server.py 224-236): clear the flag, close the sockets *)
StopServerEffect ==
  /\ is_running' = FALSE
  /\ udpSock' = "closed"
  /\ tcpSock' = "closed"

(* sendto(offer) raises.  server.py 92-96: break, then stop_server();      *)
(* servertest.py 72-73: logged, the thread ends; Server.py 64: the thread  *)
(* dies                                                                    *)
BroadcastFailEffect ==
  IF srvVariant = "server.py"
  THEN StopServerEffect
  ELSE UNCHANGED <<is_running, udpSock, tcpSock>>

BroadcastFail ==
  /\ BroadcastLoopEntered
  /\ srvVariant # "servertest.py" => is_running
  /\ bcastPc' = "ended"
  /\ bcastFailed' = TRUE
  /\ BroadcastFailEffect
  /\ UNCHANGED <<srvVariant, server_udp_port, server_tcp_port, offer_packet,
                 udpBoundPort, tcpBoundPort, dispPc, acceptors, offers,
                 nOffers, accepted, dispatched, tcpWorkers, udpWorkers,
                 abortedWorkers, stopRequested>>
  /\ UNCHANGED badRequests
  /\ UNCHANGED notServer

(* an acceptor that starts no thread for the connection *)
StartNoWorker(running) == running

(* threading.Thread(target = the worker, ...).start() : one more worker runs *)
StartWorker(running) == running + 1

(* accept returns a connection; one worker is started for it and the loop  *)
(* goes back to accept                                                     *)
Accept ==
  /\ acceptors > 0
  /\ tcpSock = "listening"
  /\ accepted < MaxConns
  /\ accepted' = accepted + 1
  /\ tcpWorkers' = StartWorker(tcpWorkers)
  /\ UNCHANGED <<srvVariant, is_running, server_udp_port, server_tcp_port,
                 offer_packet, udpSock, tcpSock, udpBoundPort, tcpBoundPort,
                 bcastPc, dispPc, acceptors, offers, nOffers, dispatched,
                 udpWorkers, abortedWorkers, bcastFailed, stopRequested>>
  /\ UNCHANGED badRequests
  /\ UNCHANGED notServer

(* accept raises on the closed socket: the acceptor's loop ends *)
AcceptorExit ==
  /\ acceptors > 0
  /\ tcpSock = "closed"
  /\ acceptors' = acceptors - 1
  /\ UNCHANGED <<srvVariant, is_running, server_udp_port, server_tcp_port,
                 offer_packet, udpSock, tcpSock, udpBoundPort, tcpBoundPort,
                 bcastPc, dispPc, offers, nOffers, accepted, dispatched,
                 tcpWorkers, udpWorkers, abortedWorkers, bcastFailed,
                 stopRequested>>
  /\ UNCHANGED badRequests
  /\ UNCHANGED notServer

(* recvfrom returns a valid Request; one send worker is started for it *)
Dispatch ==
  /\ dispPc = "running"
  /\ udpSock = "bound"
  /\ dispatched < MaxRequests
  /\ dispatched' = dispatched + 1
  /\ udpWorkers' = udpWorkers + 1
  /\ UNCHANGED <<srvVariant, is_running, server_udp_port, server_tcp_port,
                 offer_packet, udpSock, tcpSock, udpBoundPort, tcpBoundPort,
                 bcastPc, dispPc, acceptors, offers, nOffers, accepted,
                 tcpWorkers, abortedWorkers, bcastFailed, stopRequested>>
  /\ UNCHANGED badRequests
  /\ UNCHANGED notServer

(* recvfrom raises on the closed socket: the dispatcher's loop ends *)
DispatcherExit ==
  /\ dispPc = "running"
  /\ udpSock = "closed"
  /\ dispPc' = "ended"
  /\ UNCHANGED <<srvVariant, is_running, server_udp_port, server_tcp_port,
                 offer_packet, udpSock, tcpSock, udpBoundPort, tcpBoundPort,
                 bcastPc, acceptors, offers, nOffers, accepted, dispatched,
                 tcpWorkers, udpWorkers, abortedWorkers, bcastFailed,
                 stopRequested>>
  /\ UNCHANGED badRequests
  /\ UNCHANGED notServer

(* a stream worker ends; it writes to the connection's own socket *)
TcpWorkerEnd ==
  /\ tcpWorkers > 0
  /\ tcpWorkers' = tcpWorkers - 1
  /\ UNCHANGED <<srvVariant, is_running, server_udp_port, server_tcp_port,
                 offer_packet, udpSock, tcpSock, udpBoundPort, tcpBoundPort,
                 bcastPc, dispPc, acceptors, offers, nOffers, accepted,
                 dispatched, udpWorkers, abortedWorkers, bcastFailed,
                 stopRequested>>
  /\ UNCHANGED badRequests
  /\ UNCHANGED notServer

(* a send worker ends; it sends on the server's request socket, and sendto *)
(* raises once that socket is closed                                       *)
UdpWorkerEnd ==
  /\ udpWorkers > 0
  /\ udpWorkers' = udpWorkers - 1
  /\ abortedWorkers' = IF udpSock = "closed" THEN abortedWorkers + 1
                       ELSE abortedWorkers
  /\ UNCHANGED <<srvVariant, is_running, server_udp_port, server_tcp_port,
                 offer_packet, udpSock, tcpSock, udpBoundPort, tcpBoundPort,
                 bcastPc, dispPc, acceptors, offers, nOffers, accepted,
                 dispatched, tcpWorkers, bcastFailed, stopRequested>>
  /\ UNCHANGED badRequests
  /\ UNCHANGED notServer

(* the operator stops the server: KeyboardInterrupt and stop_server        *)
(* (server.py 243-245), the finally of main (servertest.py 225-230),       *)
(* stop_server (Server.py 215-217).                                        *)
(* server.py: the broadcast loop runs in the thread that calls stop_server; *)
(* servertest.py: the process ends right after the sockets are closed and  *)
(* takes the daemon broadcaster with it; Server.py: the broadcaster is a   *)
(* thread of its own and sees the flag at its next test of is_running      *)
OperatorStop ==
  /\ ~stopRequested
  /\ tcpSock = "listening"
  /\ stopRequested' = TRUE
  /\ StopServerEffect
  /\ bcastPc' = IF srvVariant = "Server.py" THEN bcastPc ELSE "ended"
  /\ UNCHANGED <<srvVariant, server_udp_port, server_tcp_port, offer_packet,
                 udpBoundPort, tcpBoundPort, dispPc, acceptors, offers,
                 nOffers, accepted, dispatched, tcpWorkers, udpWorkers,
                 abortedWorkers, bcastFailed>>
  /\ UNCHANGED badRequests
  /\ UNCHANGED notServer

(* recvfrom returns a datagram that is no Request.                         *)
(* server.py 107-120: shorter than 13 bytes it is skipped; otherwise it is *)
(* unpacked, which raises on any other length than 13 (except: break), and *)
(* the cookie and the type are tested.                                     *)
(* servertest.py 125-130, 88-96: a thread is started for it, which tests   *)
(* the length, the cookie and the type and returns.                        *)
DispatchInvalid ==
  /\ dispPc = "running"
  /\ udpSock = "bound"
  /\ badRequests < MaxBadRequests
  /\ badRequests' = badRequests + 1
  /\ \E d \in InvalidRequests :
       dispPc' = IF srvVariant = "server.py" /\ d.len >= RequestLen
                    /\ UnpackRequestRaises(d)
                 THEN "ended" ELSE dispPc
  /\ UNCHANGED <<srvVariant, is_running, server_udp_port, server_tcp_port,
                 offer_packet, udpSock, tcpSock, udpBoundPort, tcpBoundPort,
                 bcastPc, acceptors, offers, nOffers, accepted, dispatched,
                 tcpWorkers, udpWorkers, abortedWorkers, bcastFailed,
                 stopRequested>>
  /\ UNCHANGED notServer

(* Server.py 62: "while self.is_running" is false after the sleep, the     *)
(* broadcaster's loop is over                                              *)
BroadcastLoopExit ==
  /\ srvVariant = "Server.py"
  /\ bcastPc = "running"
  /\ ~is_running
  /\ bcastPc' = "ended"
  /\ UNCHANGED <<srvVariant, is_running, server_udp_port, server_tcp_port,
                 offer_packet, udpSock, tcpSock, udpBoundPort, tcpBoundPort,
                 dispPc, acceptors, offers, nOffers, accepted, dispatched,
                 tcpWorkers, udpWorkers, abortedWorkers, bcastFailed,
                 stopRequested, badRequests>>
  /\ UNCHANGED notServer

NextServer ==
  \/ BindUdp \/ BindTcp \/ BroadcastOffer \/ BroadcastFail \/ Accept
  \/ AcceptorExit \/ Dispatch \/ DispatcherExit \/ TcpWorkerEnd
  \/ UdpWorkerEnd \/ OperatorStop \/ DispatchInvalid \/ BroadcastLoopExit

(***************************************************************************)
(* A test round: main (clienttest.py 293-334), tcp_transfer, udp_transfer, *)
(* StatisticsHandler.  A worker is named by its place in the list threads; *)
(* that is also the address of its socket, and the server answers a        *)
(* session on the address its request came from.                           *)
(***************************************************************************)
Workers == 1..MaxWorkers

RoundSizes == {0, CHUNK_SIZE + 1}

IsStreamWorker(w) == w <= num_tcp_connections

(* i + 1 of the loop that started the thread *)
ConnectionNumber(w) == IF IsStreamWorker(w) THEN w ELSE w - num_tcp_connections

NoSession == [pc |-> "unused", received |-> 0, total_segments |-> NoneValue]
NotServed == [state |-> "none", sent |-> 0]

(* what the earlier rounds of the run left in stats (clienttest.py 85: one *)
(* StatisticsHandler for the whole run): nothing before the first round,   *)
(* one stream record per earlier round after that                          *)
RECURSIVE EarlierTcpResults(_)
EarlierTcpResults(n) ==
  IF n = 0 THEN <<>>
  ELSE Append(EarlierTcpResults(n - 1),
              [connection_number |-> 1, file_size |-> CHUNK_SIZE + 1,
               round |-> n])

(* the client is about to read the parameters of round n + 1 *)
RoundBegin(n) ==
  /\ roundPc = "idle"
  /\ roundNo = n
  /\ num_tcp_connections = 0
  /\ num_udp_connections = 0
  /\ test_file_size = 0
  /\ threads = 0
  /\ session = [w \in Workers |-> NoSession]
  /\ served = [w \in Workers |-> NotServed]
  /\ results = <<>>
  /\ tcp_results = EarlierTcpResults(n)
  /\ udp_results = <<>>
  /\ displayed = <<>>
  /\ csv = [tcp |-> EarlierTcpResults(n), udp |-> <<>>]

EarlierRounds == {0, 1}

InitRound == \E n \in EarlierRounds : RoundBegin(n)

(* clienttest.py 286-295: read the parameters, threads = [], results = [] *)
RoundStart ==
  /\ roundPc = "idle"
  /\ roundPc' = "testing"
  /\ roundNo' = roundNo + 1
  /\ num_tcp_connections' \in 0..MaxWorkers
  /\ num_udp_connections' \in 0..(MaxWorkers - num_tcp_connections')
  /\ test_file_size' \in RoundSizes
  /\ threads' = 0
  /\ results' = <<>>
  /\ session' = [w \in Workers |-> NoSession]
  /\ served' = [w \in Workers |-> NotServed]
  /\ UNCHANGED <<tcp_results, udp_results, displayed, csv>>
  /\ UNCHANGED notRound

(* clienttest.py 298-313: thread.start(), stream workers first *)
StartThread ==
  /\ roundPc = "testing"
  /\ threads < num_tcp_connections + num_udp_connections
  /\ threads' = threads + 1
  /\ session' = [session EXCEPT ![threads + 1].pc = "started"]
  /\ UNCHANGED <<roundPc, roundNo, num_tcp_connections, num_udp_connections,
                 test_file_size, served, results, tcp_results,
                 udp_results, displayed, csv>>
  /\ UNCHANGED notRound

(* an append that drops what the list held *)
ListAppendLost(list, record) == <<record>>

(* list.append(record): one step of the interpreter, the list keeps what   *)
(* it held                                                                 *)
ListAppend(list, record) == Append(list, record)

(* clienttest.py 185: results.append *)
TcpRecord(w) ==
  /\ results' = ListAppend(results, [kind |-> "TCP",
                                     connection_number |-> ConnectionNumber(w),
                                     file_size |-> test_file_size])
  /\ UNCHANGED <<tcp_results, udp_results>>

(* clienttest.py 251-256: success rate and lost packets from the worker's  *)
(* own received_segments and total_segments; results.append                *)
UdpRecord(w, received, total) ==
  /\ results' = ListAppend(results, [kind |-> "UDP",
                                     connection_number |-> ConnectionNumber(w),
                                     file_size |-> test_file_size,
                                     received_segments |-> received,
                                     total_segments |-> total])
  /\ UNCHANGED <<tcp_results, udp_results>>

(* clienttest.py 188, 19-28: stats.add_tcp_result;                         *)
(* clienttest.py 257, 30-41: stats.add_udp_result.  No lock is taken.      *)
AddResult(w) ==
  /\ session[w].pc = "appended"
  /\ session' = [session EXCEPT ![w].pc = "recorded"]
  /\ IF IsStreamWorker(w)
     THEN /\ tcp_results' = ListAppend(tcp_results,
                               [connection_number |-> ConnectionNumber(w),
                                file_size |-> test_file_size,
                                round |-> roundNo])
          /\ UNCHANGED udp_results
     ELSE /\ udp_results' = ListAppend(udp_results,
                               [connection_number |-> ConnectionNumber(w),
                                file_size |-> test_file_size,
                                lost_packets |->
                                  IF session[w].total_segments = NoneValue
                                     \/ session[w].total_segments = 0
                                  THEN NoneValue
                                  ELSE session[w].total_segments
                                       - session[w].received,
                                round |-> roundNo])
          /\ UNCHANGED tcp_results
  /\ UNCHANGED <<roundPc, roundNo, num_tcp_connections, num_udp_connections,
                 test_file_size, threads, served, results, displayed, csv>>
  /\ UNCHANGED notRound

(* clienttest.py 166-175: connect, sendall(str(size)); with size 0 the     *)
(* receive loop is not entered                                             *)
TcpConnectSend(w) ==
  /\ session[w].pc = "started"
  /\ IsStreamWorker(w)
  /\ served' = [served EXCEPT ![w].state = "requested"]
  /\ IF test_file_size = 0
     THEN /\ session' = [session EXCEPT ![w].pc = "appended"]
          /\ TcpRecord(w)
     ELSE /\ session' = [session EXCEPT ![w].pc = "receiving"]
          /\ UNCHANGED <<results, tcp_results, udp_results>>
  /\ UNCHANGED <<roundPc, roundNo, num_tcp_connections, num_udp_connections,
                 test_file_size, threads, displayed, csv>>
  /\ UNCHANGED notRound

(* an error that is not caught in the worker and takes the other threads   *)
(* of the round down with it                                               *)
TcpFailAbortsAll(w) ==
  /\ session[w].pc \in {"started", "receiving"}
  /\ IsStreamWorker(w)
  /\ session' = [v \in Workers |->
                   IF v <= threads /\ session[v].pc # "recorded"
                   THEN [session[v] EXCEPT !.pc = "failed"] ELSE session[v]]
  /\ UNCHANGED <<roundPc, roundNo, num_tcp_connections, num_udp_connections,
                 test_file_size, threads, served, results, tcp_results,
                 udp_results, displayed, csv>>
  /\ UNCHANGED notRound

(* clienttest.py 190-195: connect or recv raises; the handler reports the  *)
(* error and the worker ends without a record                              *)
TcpFail(w) ==
  /\ session[w].pc \in {"started", "receiving"}
  /\ IsStreamWorker(w)
  /\ session' = [session EXCEPT ![w].pc = "failed"]
  /\ UNCHANGED <<roundPc, roundNo, num_tcp_connections, num_udp_connections,
                 test_file_size, threads, served, results, tcp_results,
                 udp_results, displayed, csv>>
  /\ UNCHANGED notRound

(* clienttest.py 175-188: recv(1024) returns the next chunk the server's   *)
(* worker wrote to this connection; the loop ends at file_size bytes       *)
TcpReceive(w) ==
  /\ session[w].pc = "receiving"
  /\ IsStreamWorker(w)
  /\ served[w].state = "requested"
  /\ served[w].sent < test_file_size
  /\ LET n == Min(CHUNK_SIZE, test_file_size - served[w].sent)
         got == session[w].received + n
     IN /\ served' = [served EXCEPT ![w].sent = @ + n]
        /\ IF got >= test_file_size
           THEN /\ session' = [session EXCEPT ![w].received = got,
                                              ![w].pc = "appended"]
                /\ TcpRecord(w)
           ELSE /\ session' = [session EXCEPT ![w].received = got]
                /\ UNCHANGED <<results, tcp_results, udp_results>>
  /\ UNCHANGED <<roundPc, roundNo, num_tcp_connections, num_udp_connections,
                 test_file_size, threads, displayed, csv>>
  /\ UNCHANGED notRound

(* clienttest.py 176-188: the server's worker closed the connection        *)
(* early; recv returns b'' and the loop ends                               *)
TcpReceiveEOF(w) ==
  /\ session[w].pc = "receiving"
  /\ IsStreamWorker(w)
  /\ served[w].state = "requested"
  /\ served' = [served EXCEPT ![w].state = "closed"]
  /\ session' = [session EXCEPT ![w].pc = "appended"]
  /\ TcpRecord(w)
  /\ UNCHANGED <<roundPc, roundNo, num_tcp_connections, num_udp_connections,
                 test_file_size, threads, displayed, csv>>
  /\ UNCHANGED notRound

(* clienttest.py 221-222: the Request leaves the worker's own socket; it   *)
(* reaches the server or is lost                                           *)
UdpSendRequest(w) ==
  /\ session[w].pc = "started"
  /\ ~IsStreamWorker(w)
  /\ session' = [session EXCEPT ![w].pc = "receiving"]
  /\ \E arrives \in BOOLEAN :
       served' = [served EXCEPT ![w].state =
                    IF arrives THEN "requested" ELSE "none"]
  /\ UNCHANGED <<roundPc, roundNo, num_tcp_connections, num_udp_connections,
                 test_file_size, threads, results, tcp_results, udp_results,
                 displayed, csv>>
  /\ UNCHANGED notRound

(* clienttest.py 259-262: sendto raises, or recvfrom raises something      *)
(* other than timeout; the worker ends without a record                    *)
UdpFail(w) ==
  /\ session[w].pc \in {"started", "receiving"}
  /\ ~IsStreamWorker(w)
  /\ session' = [session EXCEPT ![w].pc = "failed"]
  /\ UNCHANGED <<roundPc, roundNo, num_tcp_connections, num_udp_connections,
                 test_file_size, threads, served, results, tcp_results,
                 udp_results, displayed, csv>>
  /\ UNCHANGED notRound

(* the server's send worker sends the next segment to the address the      *)
(* Request came from and the datagram is lost on the way                   *)
UdpSegmentLost(w) ==
  /\ session[w].pc = "receiving"
  /\ ~IsStreamWorker(w)
  /\ served[w].state = "requested"
  /\ served[w].sent < TotalSegments("servertest.py", test_file_size)
  /\ served' = [served EXCEPT ![w].sent = @ + 1]
  /\ UNCHANGED <<roundPc, roundNo, num_tcp_connections, num_udp_connections,
                 test_file_size, threads, session, results, tcp_results,
                 udp_results, displayed, csv>>
  /\ UNCHANGED notRound

(* clienttest.py 230-243: the next segment the server's send worker sent   *)
(* to the address of this worker's socket arrives; the loop ends when      *)
(* received_segments == total_segments                                     *)
UdpReceive(w) ==
  /\ session[w].pc = "receiving"
  /\ ~IsStreamWorker(w)
  /\ served[w].state = "requested"
  /\ served[w].sent < TotalSegments("servertest.py", test_file_size)
  /\ served' = [served EXCEPT ![w].sent = @ + 1]
  /\ LET total == TotalSegments("servertest.py", test_file_size)
         got == session[w].received + 1
     IN IF got = total
        THEN /\ session' = [session EXCEPT ![w].received = got,
                                           ![w].total_segments = total,
                                           ![w].pc = "appended"]
             /\ UdpRecord(w, got, total)
        ELSE /\ session' = [session EXCEPT ![w].received = got,
                                           ![w].total_segments = total]
             /\ UNCHANGED <<results, tcp_results, udp_results>>
  /\ UNCHANGED <<roundPc, roundNo, num_tcp_connections, num_udp_connections,
                 test_file_size, threads, displayed, csv>>
  /\ UNCHANGED notRound

(* clienttest.py 244-257: recvfrom times out after 1 s of silence *)
UdpTimeout(w) ==
  /\ session[w].pc = "receiving"
  /\ ~IsStreamWorker(w)
  /\ session' = [session EXCEPT ![w].pc = "appended"]
  /\ UdpRecord(w, session[w].received, session[w].total_segments)
  /\ UNCHANGED <<roundPc, roundNo, num_tcp_connections, num_udp_connections,
                 test_file_size, threads, served, displayed, csv>>
  /\ UNCHANGED notRound

(* a main thread that does not wait for its workers *)
JoinNone == TRUE

(* clienttest.py 316-317: for thread in threads: thread.join() returns for *)
(* every thread, i.e. every worker function has returned                   *)
JoinAll == \A w \in 1..threads : session[w].pc \in {"recorded", "failed"}

(* clienttest.py 316-334: join every thread, print the results, save the   *)
(* statistics                                                              *)
JoinAndReport ==
  /\ roundPc = "testing"
  /\ threads = num_tcp_connections + num_udp_connections
  /\ JoinAll
  /\ displayed' = results
  /\ csv' = [tcp |-> tcp_results, udp |-> udp_results]
  /\ roundPc' = "reported"
  /\ UNCHANGED <<roundNo, num_tcp_connections, num_udp_connections,
                 test_file_size, threads, session, served, results,
                 tcp_results, udp_results>>
  /\ UNCHANGED notRound

TcpWorkerStep ==
  \E w \in Workers : TcpConnectSend(w) \/ TcpReceive(w) \/ TcpReceiveEOF(w)
TcpWorkerFail == \E w \in Workers : TcpFail(w)
UdpWorkerStep ==
  \E w \in Workers :
     UdpSendRequest(w) \/ UdpSegmentLost(w) \/ UdpReceive(w) \/ UdpTimeout(w)
UdpWorkerFail == \E w \in Workers : UdpFail(w)
WorkerAddResult == \E w \in Workers : AddResult(w)

NextRound ==
  \/ RoundStart \/ StartThread \/ JoinAndReport
  \/ TcpWorkerStep \/ TcpWorkerFail \/ UdpWorkerStep \/ UdpWorkerFail
  \/ WorkerAddResult

(***************************************************************************)
(* Message encoding: struct.pack on the sending side, the length test and  *)
(* struct.unpack on the receiving side.                                    *)
(***************************************************************************)
(* n as k bytes, most significant first ('>' and '!' of struct) *)
RECURSIVE BigEndian(_, _)
BigEndian(n, k) ==
  IF k = 0 THEN <<>> ELSE Append(BigEndian(n \div 256, k - 1), n % 256)

RECURSIVE FromBigEndian(_)
FromBigEndian(bs) ==
  IF bs = <<>> THEN 0
  ELSE 256 * FromBigEndian(SubSeq(bs, 1, Len(bs) - 1)) + bs[Len(bs)]

(* values of an H field (2 bytes) and of a Q field (8 bytes) *)
PortValues == {0, 1, 255, 256, 13117, 65535}
QuadValues == {0, 1, 255, 256, 65536, 16777216, 2147483647}

(* the payload bytes that follow a Payload header *)
PayloadBytes == {<<>>, <<85, 85>>}

(* server.py 51-55, servertest.py 63: pack('>IBHH', cookie, 0x2, udp, tcp) *)
PackOffer(u, t) ==
  MAGIC_COOKIE \o <<MSG_TYPE_OFFER>> \o BigEndian(u, 2) \o BigEndian(t, 2)

(* client.py 167, clienttest.py 221: pack('>IBQ', cookie, 0x3, file_size) *)
PackRequest(n) == MAGIC_COOKIE \o <<MSG_TYPE_REQUEST>> \o BigEndian(n, 8)

(* server.py 206-210, servertest.py 107: pack('>IBQQ', cookie, 0x4, total, *)
(* seg_num)                                                                *)
PackPayloadHeader(tot, i) ==
  MAGIC_COOKIE \o <<MSG_TYPE_PAYLOAD>> \o BigEndian(tot, 8) \o BigEndian(i, 8)

NotDecoded == [ok |-> FALSE, cookie |-> <<>>, msg_type |-> 0, a |-> 0, b |-> 0]

(* an unpack of the Offer that takes the two ports in the other order *)
UnpackOfferSwapped(bs) ==
  [ok |-> TRUE, cookie |-> SubSeq(bs, 1, 4), msg_type |-> bs[5],
   a |-> FromBigEndian(SubSeq(bs, 8, 9)),
   b |-> FromBigEndian(SubSeq(bs, 6, 7))]

(* unpack('>IBHH', data) on 9 bytes *)
UnpackOffer(bs) ==
  [ok |-> TRUE, cookie |-> SubSeq(bs, 1, 4), msg_type |-> bs[5],
   a |-> FromBigEndian(SubSeq(bs, 6, 7)),
   b |-> FromBigEndian(SubSeq(bs, 8, 9))]

(* unpack('>IBQ', data) on 13 bytes *)
UnpackRequest(bs) ==
  [ok |-> TRUE, cookie |-> SubSeq(bs, 1, 4), msg_type |-> bs[5],
   a |-> FromBigEndian(SubSeq(bs, 6, 13)), b |-> 0]

(* unpack('>IBQQ', data[:21]) *)
UnpackPayloadHeader(bs) ==
  [ok |-> TRUE, cookie |-> SubSeq(bs, 1, 4), msg_type |-> bs[5],
   a |-> FromBigEndian(SubSeq(bs, 6, 13)),
   b |-> FromBigEndian(SubSeq(bs, 14, 21))]

(* client.py 69-71: len(data) >= 9, unpack(data), the checks;             *)
(* clienttest.py 126-127: unpack(message), the checks                      *)
ReceiveOffer(rx, bs) ==
  IF (rx = "client.py" /\ Len(bs) < OfferLen) \/ Len(bs) # OfferLen
  THEN NotDecoded
  ELSE LET h == UnpackOffer(bs) IN
       IF h.cookie = MAGIC_COOKIE /\ h.msg_type = MSG_TYPE_OFFER
       THEN h ELSE NotDecoded

(* server.py 108-110: len(data) >= 13, unpack(data), the checks;          *)
(* servertest.py 89-98: len(data) != 13 is refused, unpack, the checks     *)
ReceiveRequest(rx, bs) ==
  IF Len(bs) # RequestLen
  THEN NotDecoded
  ELSE LET h == UnpackRequest(bs) IN
       IF h.cookie = MAGIC_COOKIE /\ h.msg_type = MSG_TYPE_REQUEST
       THEN h ELSE NotDecoded

(* client.py 214-217, clienttest.py 232-237: at least 21 bytes, unpack of  *)
(* the first 21, the checks                                                *)
ReceivePayload(rx, bs) ==
  IF Len(bs) < PayloadHeaderLen
  THEN NotDecoded
  ELSE LET h == UnpackPayloadHeader(SubSeq(bs, 1, PayloadHeaderLen)) IN
       IF h.cookie = MAGIC_COOKIE /\ h.msg_type = MSG_TYPE_PAYLOAD
       THEN h ELSE NotDecoded

CodecMessages ==
  { [kind |-> "offer", a |-> u, b |-> t, payload |-> <<>>] :
      u \in PortValues, t \in PortValues }
  \cup { [kind |-> "request", a |-> n, b |-> 0, payload |-> <<>>] :
           n \in QuadValues }
  \cup { [kind |-> "payload", a |-> tot, b |-> i, payload |-> pl] :
           tot \in QuadValues, i \in QuadValues, pl \in PayloadBytes }

(* who packs and who unpacks a message of the kind *)
Packers(kind) ==
  IF kind = "request" THEN {"client.py", "clienttest.py"}
  ELSE {"server.py", "servertest.py"}
Unpackers(kind) ==
  IF kind = "request" THEN {"server.py", "servertest.py"}
  ELSE {"client.py", "clienttest.py"}

InitCodec ==
  /\ \E m \in CodecMessages :
       /\ msgKind = m.kind
       /\ msgFields = [a |-> m.a, b |-> m.b, payload |-> m.payload]
       /\ txSide \in Packers(m.kind)
       /\ rxSide \in Unpackers(m.kind)
  /\ wireData = <<>>
  /\ decoded = NotDecoded
  /\ codecPc = "built"

(* the sending side packs the message and hands it to sendto *)
CodecSend ==
  /\ codecPc = "built"
  /\ wireData' =
       IF msgKind = "offer" THEN PackOffer(msgFields.a, msgFields.b)
       ELSE IF msgKind = "request" THEN PackRequest(msgFields.a)
       ELSE PackPayloadHeader(msgFields.a, msgFields.b) \o msgFields.payload
  /\ codecPc' = "sent"
  /\ UNCHANGED <<msgKind, msgFields, txSide, rxSide, decoded>>
  /\ UNCHANGED notCodec

(* recvfrom returns the datagram on the receiving side *)
CodecReceive ==
  /\ codecPc = "sent"
  /\ decoded' =
       IF msgKind = "offer" THEN ReceiveOffer(rxSide, wireData)
       ELSE IF msgKind = "request" THEN ReceiveRequest(rxSide, wireData)
       ELSE ReceivePayload(rxSide, wireData)
  /\ codecPc' = "received"
  /\ UNCHANGED <<msgKind, msgFields, txSide, rxSide, wireData>>
  /\ UNCHANGED notCodec

NextCodec == CodecSend \/ CodecReceive

(***************************************************************************)
(* The stream worker of a server on an arbitrary request text: server.py   *)
(* handle_tcp_client, servertest.py handle_single_tcp_connection,          *)
(* Server.py process_client.                                               *)
(***************************************************************************)
Whitespace == {NL, " "}

(* str.strip() *)
RECURSIVE PyStripLeft(_)
PyStripLeft(s) ==
  IF s # <<>> /\ Head(s) \in Whitespace THEN PyStripLeft(Tail(s)) ELSE s
RECURSIVE PyStripRight(_)
PyStripRight(s) ==
  IF s # <<>> /\ s[Len(s)] \in Whitespace
  THEN PyStripRight(SubSeq(s, 1, Len(s) - 1)) ELSE s
PyStrip(s) == PyStripRight(PyStripLeft(s))

(* digits with single underscores between them, as int() accepts *)
IsPyDigits(s) ==
  /\ s # <<>>
  /\ \A i \in 1..Len(s) : s[i] \in DigitChars \cup {"_"}
  /\ s[1] # "_" /\ s[Len(s)] # "_"
  /\ \A i \in 1..(Len(s) - 1) : ~(s[i] = "_" /\ s[i + 1] = "_")

RECURSIVE PyDigitsValue(_)
PyDigitsValue(s) ==
  IF s = <<>> THEN 0
  ELSE IF s[Len(s)] = "_" THEN PyDigitsValue(SubSeq(s, 1, Len(s) - 1))
  ELSE 10 * PyDigitsValue(SubSeq(s, 1, Len(s) - 1)) + DigitVal(s[Len(s)])

(* int(text): surrounding whitespace, an optional sign, digits; ValueError *)
(* (ok = FALSE) otherwise                                                  *)
PyInt(text) ==
  LET t == PyStrip(text)
      signed == t # <<>> /\ Head(t) \in {"+", "-"}
      body == IF signed THEN Tail(t) ELSE t
  IN IF IsPyDigits(body)
     THEN [ok |-> TRUE,
           value |-> IF signed /\ Head(t) = "-" THEN 0 - PyDigitsValue(body)
                     ELSE PyDigitsValue(body)]
     ELSE [ok |-> FALSE, value |-> 0]

FileSizePrefix == <<"F", "i", "l", "e", "S", "i", "z", "e", ":">>

(* request_data.startswith("FileSize:") *)
StartsWithPrefix(s) ==
  Len(s) >= Len(FileSizePrefix) /\ SubSeq(s, 1, Len(FileSizePrefix)) = FileSizePrefix

(* s up to its first ":" (all of s when it has none) *)
RECURSIVE UpToColon(_)
UpToColon(s) ==
  IF s = <<>> \/ Head(s) = ":" THEN <<>> ELSE <<Head(s)>> \o UpToColon(Tail(s))

(* request_data.split(":")[1] of a text that starts with "FileSize:" *)
SplitSecond(s) == UpToColon(SubSeq(s, Len(FileSizePrefix) + 1, Len(s)))

RequestBodies ==
  { <<>>, <<"a", "b", "c">>, <<"1", "2">>, <<"-", "5">>, <<"+", "3">>,
    <<"1", "_", "0">>, <<"1", "a">>, <<" ", "7", " ">>, <<"1", ":", "2">>,
    <<"-">>, <<"0">> }

(* the texts a client may send: a body, with or without the newline and    *)
(* with or without the "FileSize:" prefix                                  *)
RequestTexts ==
  { pre \o body \o nl : pre \in {<<>>, FileSizePrefix}, body \in RequestBodies,
                        nl \in {<<>>, <<NL>>} }

RequestServers == {"server.py", "servertest.py", "Server.py"}

InitRequest ==
  /\ rqSrv \in RequestServers
  /\ rqText \in RequestTexts
  /\ rqPc = "read"
  /\ rqConn = "open"
  /\ rqSize = NoneValue
  /\ rqSent = 0
  /\ rqDatagrams = 0
  /\ rqError = FALSE

(* the text from which the worker takes the size *)
RequestToken(srv, text) ==
  IF srv = "Server.py" THEN SplitSecond(text) ELSE PyStrip(text)

(* what the worker does with the request text once it has it:              *)
(* server.py 154-160, servertest.py 147-153, Server.py 94-103              *)
RqParse ==
  IF rqSrv = "servertest.py" /\ PyStrip(rqText) = <<>>
  THEN /\ rqConn' = "closed" /\ rqPc' = "return"
       /\ UNCHANGED <<rqSize, rqError>>
  ELSE IF rqSrv = "Server.py" /\ ~StartsWithPrefix(rqText)
  THEN /\ rqConn' = "closed" /\ rqPc' = "return"
       /\ UNCHANGED <<rqSize, rqError>>
  ELSE LET n == PyInt(RequestToken(rqSrv, rqText)) IN
       IF n.ok
       THEN /\ rqSize' = n.value /\ rqPc' = "send"
            /\ UNCHANGED <<rqConn, rqError>>
       ELSE /\ rqError' = TRUE /\ rqPc' = "return"
            /\ rqConn' = IF rqSrv = "Server.py" THEN rqConn ELSE "closed"
            /\ UNCHANGED rqSize

(* recv(1024) returns the text; server.py reads on until it has a newline *)
RqRecv ==
  /\ rqPc = "read"
  /\ IF rqSrv = "server.py" /\ rqText # <<>>
        /\ NL \notin { rqText[i] : i \in 1..Len(rqText) }
     THEN /\ rqPc' = "more"
          /\ UNCHANGED <<rqConn, rqSize, rqError>>
     ELSE RqParse
  /\ UNCHANGED <<rqSrv, rqText, rqSent, rqDatagrams>>
  /\ UNCHANGED notRequest

(* server.py 149-152: the client has shut its side, recv returns b'' *)
RqRecvEOF ==
  /\ rqPc = "more"
  /\ RqParse
  /\ UNCHANGED <<rqSrv, rqText, rqSent, rqDatagrams>>
  /\ UNCHANGED notRequest

(* one iteration of the send loop: server.py 177-181, servertest.py        *)
(* 156-159, Server.py 119-122                                              *)
RqSend ==
  /\ rqPc = "send"
  /\ rqSent < rqSize
  /\ rqSent' = rqSent + Min(CHUNK_SIZE, rqSize - rqSent)
  /\ UNCHANGED <<rqSrv, rqText, rqPc, rqConn, rqSize, rqDatagrams, rqError>>
  /\ UNCHANGED notRequest

(* the send loop is over: server.py 163-164 and servertest.py 166-167      *)
(* close in finally; Server.py 101 goes on to simulate_udp_transfer        *)
RqSendDone ==
  /\ rqPc = "send"
  /\ ~(rqSent < rqSize)
  /\ IF rqSrv = "Server.py"
     THEN rqPc' = "udp" /\ UNCHANGED rqConn
     ELSE rqPc' = "return" /\ rqConn' = "closed"
  /\ UNCHANGED <<rqSrv, rqText, rqSize, rqSent, rqDatagrams, rqError>>
  /\ UNCHANGED notRequest

(* Server.py 132-157, 103: range(total_segments) sendto, then close() *)
RqUdpTransfer ==
  /\ rqPc = "udp"
  /\ LET total == (rqSize + CHUNK_SIZE - 1) \div CHUNK_SIZE IN
       rqDatagrams' = IF total > 0 THEN total ELSE 0
  /\ rqConn' = "closed"
  /\ rqPc' = "return"
  /\ UNCHANGED <<rqSrv, rqText, rqSize, rqSent, rqError>>
  /\ UNCHANGED notRequest

(* a socket object the worker left open is closed when the interpreter     *)
(* reclaims it, at a time the program does not control                     *)
RqReclaim ==
  /\ rqPc = "return"
  /\ rqConn = "open"
  /\ rqConn' = "closed"
  /\ UNCHANGED <<rqSrv, rqText, rqPc, rqSize, rqSent, rqDatagrams, rqError>>
  /\ UNCHANGED notRequest

NextRequest ==
  \/ RqRecv \/ RqRecvEOF \/ RqSend \/ RqSendDone \/ RqUdpTransfer
  \/ RqReclaim

(***************************************************************************)
(* The throughput computations: client.py 115-130 and 156-184,             *)
(* clienttest.py 168-184 and 218-250, server.py 171-185 and 197-219,       *)
(* Server.py 112-127.  servertest.py computes no speed.                    *)
(***************************************************************************)
MeterSites ==
  { "client.py stream", "client.py datagram", "clienttest.py stream",
    "clienttest.py datagram", "server.py stream", "server.py datagram",
    "Server.py stream" }

(* the sites whose dividend is the count of bytes received *)
CountsReceived == { "client.py stream", "client.py datagram" }

(* time.time() is a float of seconds since the epoch: near 2^30 s two      *)
(* values differ by a multiple of 2^-22 s, 238 ns                          *)
ClockStep == 238

(* end - start: time.time() is the wall clock, which stands still within   *)
(* its resolution and goes back when the system clock is set back          *)
ClockAdvances == { 0 - ClockStep, 0, ClockStep, 2 * ClockStep }

MeterSizes == {0, 1, CHUNK_SIZE}

Max(a, b) == IF a >= b THEN a ELSE b

(* 1e-9, 1e-8 and 1e-6 seconds *)
ClampClient == 1
epsilon == 10
ClampServerPy == 1000

(* client.py 129, 183 and server.py 184, 218: max(end - start, 1e-9);      *)
(* clienttest.py 184, 250: elapsed_time + epsilon;                         *)
(* Server.py 126: max(end_time - start_time, 1e-6)                         *)
Duration(site, elapsed) ==
  IF site \in {"clienttest.py stream", "clienttest.py datagram"}
  THEN elapsed + epsilon
  ELSE IF site = "Server.py stream" THEN Max(elapsed, ClampServerPy)
  ELSE Max(elapsed, ClampClient)

(* bits (bytes in Server.py) of the dividend *)
Dividend(site, size, done) ==
  IF site \in CountsReceived THEN (IF done THEN size ELSE 0) * 8
  ELSE IF site = "Server.py stream" THEN size
  ELSE size * 8

InitMeter ==
  /\ mtSite \in MeterSites
  /\ mtSize \in MeterSizes
  /\ mtDone \in BOOLEAN
  /\ mtStart \in {5 * ClockStep, 10 * ClockStep}
  /\ mtEnd = NoneValue
  /\ mtPc = "running"
  /\ mtDuration = 0
  /\ mtSpeedNum = 0

(* end_time = time.time() *)
MeterEnd ==
  /\ mtPc = "running"
  /\ \E d \in ClockAdvances : mtEnd' = mtStart + d
  /\ mtPc' = "ended"
  /\ UNCHANGED <<mtSite, mtSize, mtDone, mtStart, mtDuration, mtSpeedNum>>
  /\ UNCHANGED notMeter

(* the duration and the division; ZeroDivisionError on a zero divisor *)
MeterCompute ==
  /\ mtPc = "ended"
  /\ mtDuration' = Duration(mtSite, mtEnd - mtStart)
  /\ mtSpeedNum' = Dividend(mtSite, mtSize, mtDone)
  /\ mtPc' = IF Duration(mtSite, mtEnd - mtStart) = 0 THEN "raised"
             ELSE "computed"
  /\ UNCHANGED <<mtSite, mtSize, mtDone, mtStart, mtEnd>>
  /\ UNCHANGED notMeter

NextMeter == MeterEnd \/ MeterCompute

(***************************************************************************)
(* Addressing of the Payloads: server.py 105-117 and 190-215,              *)
(* servertest.py 79-130, Server.py 89-101 and 132-153.  In Server.py the   *)
(* request is the text read from an accepted connection and client_address *)
(* is the address of that connection's peer.                               *)
(***************************************************************************)
AddrServers == {"server.py", "servertest.py", "Server.py"}
ClientSockets == {"a", "b"}
AddrSizes == {1, CHUNK_SIZE + 1}
NoAddr == "none"

InitAddr ==
  /\ paSrv \in AddrServers
  /\ paSize \in [ClientSockets -> AddrSizes]
  /\ paValid \in [ClientSockets -> BOOLEAN]
  /\ paCli = [c \in ClientSockets |-> "idle"]
  /\ paReqNet = {}
  /\ client_addr = NoAddr
  /\ paWorkers = <<>>
  /\ paNet = {}
  /\ paInbox = [c \in ClientSockets |-> {}]

(* client.py 166-169, clienttest.py 221-222: sendto(request, server) *)
ClientSendsRequest(c) ==
  /\ paCli[c] = "idle"
  /\ paCli' = [paCli EXCEPT ![c] = "sent"]
  /\ paReqNet' = paReqNet \cup
                   {[from |-> c, size |-> paSize[c], valid |-> paValid[c]]}
  /\ UNCHANGED <<paSrv, paSize, paValid, client_addr, paWorkers, paNet,
                 paInbox>>
  /\ UNCHANGED notAddr

(* server.py 113-117 starts a thread for a valid Request only;             *)
(* servertest.py 125-130 starts one for every datagram and the thread      *)
(* returns at once on an invalid one (89-96); Server.py 93-101 sends from  *)
(* the connection's own thread when the text starts with "FileSize:"       *)
StartsThread(srv, r) == srv = "servertest.py" \/ r.valid

(* the arguments the thread is started with *)
ThreadOf(r) ==
  [req |-> r.from, to |-> r.from, size |-> r.size, seg_num |-> 0,
   valid |-> r.valid]

(* data, client_addr = recvfrom(...), then the dispatch *)
DispatchRequest ==
  /\ \E r \in paReqNet :
       /\ paReqNet' = paReqNet \ {r}
       /\ client_addr' = r.from
       /\ paCli' = [paCli EXCEPT ![r.from] = "received"]
       /\ paWorkers' = IF StartsThread(paSrv, r)
                       THEN Append(paWorkers, ThreadOf(r)) ELSE paWorkers
  /\ UNCHANGED <<paSrv, paSize, paValid, paNet, paInbox>>
  /\ UNCHANGED notAddr

(* a send that takes its destination from the dispatcher's variable *)
SendTargetOfLoop(w) == client_addr

(* server.py 215, servertest.py 110, Server.py 153: sendto(packet,         *)
(* client_addr), client_addr being the thread's own argument               *)
SendTarget(w) == w.to

(* one iteration of the thread's loop over the segments *)
SendSegment(i) ==
  /\ paWorkers[i].valid
  /\ paWorkers[i].seg_num < TotalSegments(paSrv, paWorkers[i].size)
  /\ paNet' = paNet \cup
                {[to |-> SendTarget(paWorkers[i]), gen |-> paWorkers[i].req,
                  seg |-> paWorkers[i].seg_num]}
  /\ paWorkers' = [paWorkers EXCEPT ![i].seg_num = @ + 1]
  /\ UNCHANGED <<paSrv, paSize, paValid, paCli, paReqNet, client_addr,
                 paInbox>>
  /\ UNCHANGED notAddr

(* some thread that has segments left sends its next one *)
WorkerSends == \E i \in 1..Len(paWorkers) : SendSegment(i)

(* recvfrom on the datagram socket a Payload is addressed to; the address  *)
(* Server.py sends to is that of a stream socket, where no datagram socket *)
(* receives                                                                *)
PayloadArrives ==
  /\ paSrv # "Server.py"
  /\ \E d \in paNet :
       /\ paNet' = paNet \ {d}
       /\ paInbox' = [paInbox EXCEPT ![d.to] = @ \cup {[gen |-> d.gen,
                                                        seg |-> d.seg]}]
  /\ UNCHANGED <<paSrv, paSize, paValid, paCli, paReqNet, client_addr,
                 paWorkers>>
  /\ UNCHANGED notAddr

(* the network drops a Payload *)
PayloadLost ==
  /\ \E d \in paNet : paNet' = paNet \ {d}
  /\ UNCHANGED <<paSrv, paSize, paValid, paCli, paReqNet, client_addr,
                 paWorkers, paInbox>>
  /\ UNCHANGED notAddr

NextAddr ==
  \/ \E c \in ClientSockets : ClientSendsRequest(c)
  \/ DispatchRequest
  \/ WorkerSends
  \/ PayloadArrives
  \/ PayloadLost

(***************************************************************************)
(* Successive datagram transfers of client.py: run_speed_test 91-92,       *)
(* run_udp_transfer 147-194, udp_receive_loop 196-229.  Every transfer     *)
(* binds a socket of its own to an ephemeral port; the server sends the    *)
(* segments of a Request to the socket the Request came from.              *)
(***************************************************************************)
Transfers == 1..MaxTransfers

(* the size every transfer asks for: two segments *)
SeqFileSize == CHUNK_SIZE + 1

InitSeq ==
  /\ sqXfer = 0
  /\ sqMainPc = "idle"
  /\ sqThread = [k \in Transfers |-> "none"]
  /\ sqSockOpen = [k \in Transfers |-> FALSE]
  /\ sqKeep = TRUE
  /\ sqTotal = 0
  /\ sqSegments = {}
  /\ sqBytes = 0
  /\ sqCounted = {}
  /\ sqToSend = [k \in Transfers |-> 0]
  /\ sqNet = {}
  /\ sqReports = <<>>

(* client.py 149-170: the socket, the reset of the fields, the start of    *)
(* the receive thread, the Request                                         *)
XferStart ==
  /\ sqMainPc \in {"idle", "reported"}
  /\ sqXfer < MaxTransfers
  /\ sqXfer' = sqXfer + 1
  /\ sqSockOpen' = [sqSockOpen EXCEPT ![sqXfer + 1] = TRUE]
  /\ sqKeep' = TRUE
  /\ sqSegments' = {}
  /\ sqTotal' = 0
  /\ sqBytes' = 0
  /\ sqCounted' = {}
  /\ sqThread' = [sqThread EXCEPT ![sqXfer + 1] = "running"]
  /\ sqMainPc' = "sleeping"
  /\ UNCHANGED <<sqToSend, sqNet, sqReports>>
  /\ UNCHANGED notSeq

(* the server sends the next segment of the transfer's Request *)
ServerSendsNext(k) ==
  /\ sqThread[k] # "none"
  /\ sqToSend[k] < TotalSegments("server.py", SeqFileSize)
  /\ sqNet' = sqNet \cup {[gen |-> k, seg |-> sqToSend[k]]}
  /\ sqToSend' = [sqToSend EXCEPT ![k] = @ + 1]
  /\ UNCHANGED <<sqXfer, sqMainPc, sqThread, sqSockOpen, sqKeep, sqTotal,
                 sqSegments, sqBytes, sqCounted, sqReports>>
  /\ UNCHANGED notSeq

(* client.py 208-219: recvfrom on the transfer's socket returns a segment; *)
(* a call that was already blocked when the socket was closed may still    *)
(* return one                                                              *)
ThreadRecv(k) ==
  /\ sqThread[k] = "running"
  /\ \E d \in sqNet :
       /\ d.gen = k
       /\ sqNet' = sqNet \ {d}
       /\ sqBytes' = sqBytes + PayloadHeaderLen + SegSize(SeqFileSize, d.seg)
       /\ sqTotal' = TotalSegments("server.py", SeqFileSize)
       /\ sqSegments' = sqSegments \cup {d.seg}
       /\ sqCounted' = sqCounted \cup {d}
  /\ UNCHANGED <<sqXfer, sqMainPc, sqThread, sqSockOpen, sqKeep, sqToSend,
                 sqReports>>
  /\ UNCHANGED notSeq

(* a datagram that never arrives, or arrives at a closed socket *)
SeqLost ==
  /\ \E d \in sqNet : sqNet' = sqNet \ {d}
  /\ UNCHANGED <<sqXfer, sqMainPc, sqThread, sqSockOpen, sqKeep, sqTotal,
                 sqSegments, sqBytes, sqCounted, sqToSend, sqReports>>
  /\ UNCHANGED notSeq

(* client.py 221-226: break after a second of silence *)
ThreadIdleExit(k) ==
  /\ sqThread[k] = "running"
  /\ sqKeep /\ sqSockOpen[k]
  /\ sqThread' = [sqThread EXCEPT ![k] = "broke"]
  /\ UNCHANGED <<sqXfer, sqMainPc, sqSockOpen, sqKeep, sqTotal, sqSegments,
                 sqBytes, sqCounted, sqToSend, sqNet, sqReports>>
  /\ UNCHANGED notSeq

(* client.py 174-177: sleep(2) is over; keep_receiving = False; close() *)
MainStop ==
  /\ sqMainPc = "sleeping"
  /\ sqKeep' = FALSE
  /\ sqSockOpen' = [sqSockOpen EXCEPT ![sqXfer] = FALSE]
  /\ sqMainPc' = "join"
  /\ UNCHANGED <<sqXfer, sqThread, sqTotal, sqSegments, sqBytes, sqCounted,
                 sqToSend, sqNet, sqReports>>
  /\ UNCHANGED notSeq

(* client.py 206, 227-229: the loop test sees the cleared flag, or         *)
(* recvfrom raises on the closed socket                                    *)
ThreadExit(k) ==
  /\ sqThread[k] = "running"
  /\ ~sqKeep \/ ~sqSockOpen[k]
  /\ sqThread' = [sqThread EXCEPT ![k] = "left"]
  /\ UNCHANGED <<sqXfer, sqMainPc, sqSockOpen, sqKeep, sqTotal, sqSegments,
                 sqBytes, sqCounted, sqToSend, sqNet, sqReports>>
  /\ UNCHANGED notSeq

(* the thread function has returned *)
ThreadOver(k) == sqThread[k] \in {"broke", "left"}

(* a join that returns while the thread is still running *)
JoinReturnsAtOnce(k) == TRUE

(* client.py 178: recv_thread.join() returns when the thread has ended *)
JoinReturns(k) == ThreadOver(k)

MainJoin ==
  /\ sqMainPc = "join"
  /\ JoinReturns(sqXfer)
  /\ sqMainPc' = "joined"
  /\ UNCHANGED <<sqXfer, sqThread, sqSockOpen, sqKeep, sqTotal, sqSegments,
                 sqBytes, sqCounted, sqToSend, sqNet, sqReports>>
  /\ UNCHANGED notSeq

(* client.py 181-194: the statistics are computed from the fields *)
MainReport ==
  /\ sqMainPc = "joined"
  /\ sqReports' = Append(sqReports,
                          [xfer |-> sqXfer, bytes |-> sqBytes,
                           segments |-> sqSegments, total |-> sqTotal,
                           from |-> {d.gen : d \in sqCounted},
                           joined |-> ThreadOver(sqXfer)])
  /\ sqMainPc' = "reported"
  /\ UNCHANGED <<sqXfer, sqThread, sqSockOpen, sqKeep, sqTotal, sqSegments,
                 sqBytes, sqCounted, sqToSend, sqNet>>
  /\ UNCHANGED notSeq

ServerSends == \E k \in Transfers : ServerSendsNext(k)
ThreadRecvs == \E k \in Transfers : ThreadRecv(k)
ThreadIdleExits == \E k \in Transfers : ThreadIdleExit(k)
ThreadExits == \E k \in Transfers : ThreadExit(k)

NextSeq ==
  \/ XferStart \/ ServerSends \/ ThreadRecvs \/ SeqLost \/ ThreadIdleExits
  \/ MainStop \/ ThreadExits \/ MainJoin \/ MainReport

(***************************************************************************)
(* Specifications.  A part that a specification does not run stays in its  *)
(* initial state.                                                          *)
(***************************************************************************)
StreamAtRest ==
  /\ tcpSrv = "server.py" /\ tcpCli = "client.py" /\ file_size = 0
  /\ c2s = <<>> /\ s2c = 0 /\ broken = FALSE /\ srvPc = "read" /\ data = <<>>
  /\ requested_size = 0 /\ bytes_sent = 0 /\ writes = <<>>
  /\ srvError = FALSE /\ cliPc = "start" /\ bytes_received = 0
  /\ tcp_record = NoRecord

DatagramAtRest ==
  /\ udpSrv = "server.py" /\ udpCli = "client.py" /\ udp_file_size = 0
  /\ reqState = "unsent" /\ udpSrvPc = "wait" /\ srv_total = 0 /\ seg_num = 0
  /\ sentLog = <<>> /\ net = {} /\ dups = 0 /\ strays = 0
  /\ udpMainPc = "start" /\ udpRecvPc = "idle" /\ keep_receiving = TRUE
  /\ total_segments = 0 /\ received_segments = {} /\ received_count = 0
  /\ udp_bytes_received = 0 /\ seenIdx = {} /\ report = NoReport
  /\ silence = 0 /\ slept = 0

DiscoveryAtRest ==
  /\ discCli = "client.py" /\ discPc = "idle" /\ endpoint = NoEndpoint
  /\ outcome = "none" /\ waited = 0 /\ arrivals = 0
  /\ lastDgram = NoDatagram /\ firstValid = NoDatagram /\ discRound = 0

ServerAtRest ==
  /\ srvVariant = "server.py" /\ is_running = TRUE
  /\ server_udp_port = 10000 /\ server_tcp_port = 10000
  /\ offer_packet = BuildOffer("server.py", 10000, 10000)
  /\ udpSock = "new" /\ tcpSock = "new"
  /\ udpBoundPort = NoneValue /\ tcpBoundPort = NoneValue
  /\ bcastPc = "off" /\ dispPc = "off" /\ acceptors = 0 /\ offers = {}
  /\ nOffers = 0 /\ accepted = 0 /\ dispatched = 0 /\ tcpWorkers = 0
  /\ udpWorkers = 0 /\ abortedWorkers = 0 /\ bcastFailed = FALSE
  /\ stopRequested = FALSE /\ badRequests = 0

RoundAtRest == RoundBegin(0)

RequestAtRest ==
  /\ rqSrv = "server.py" /\ rqText = <<>> /\ rqPc = "read" /\ rqConn = "open"
  /\ rqSize = NoneValue /\ rqSent = 0 /\ rqDatagrams = 0 /\ rqError = FALSE

CodecAtRest ==
  /\ msgKind = "offer" /\ msgFields = [a |-> 0, b |-> 0, payload |-> <<>>]
  /\ txSide = "server.py" /\ rxSide = "client.py" /\ wireData = <<>>
  /\ decoded = NotDecoded /\ codecPc = "built"

MeterAtRest ==
  /\ mtSite = "client.py stream" /\ mtSize = 0 /\ mtDone = FALSE
  /\ mtStart = 0 /\ mtEnd = NoneValue /\ mtPc = "running"
  /\ mtDuration = 0 /\ mtSpeedNum = 0

AddrAtRest ==
  /\ paSrv = "server.py"
  /\ paSize = [c \in ClientSockets |-> 1]
  /\ paValid = [c \in ClientSockets |-> TRUE]
  /\ paCli = [c \in ClientSockets |-> "idle"]
  /\ paReqNet = {} /\ client_addr = NoAddr /\ paWorkers = <<>>
  /\ paNet = {} /\ paInbox = [c \in ClientSockets |-> {}]

SeqAtRest ==
  /\ sqXfer = 0 /\ sqMainPc = "idle"
  /\ sqThread = [k \in Transfers |-> "none"]
  /\ sqSockOpen = [k \in Transfers |-> FALSE]
  /\ sqKeep = TRUE /\ sqTotal = 0 /\ sqSegments = {} /\ sqBytes = 0
  /\ sqCounted = {} /\ sqToSend = [k \in Transfers |-> 0]
  /\ sqNet = {} /\ sqReports = <<>>

StartStream ==
  InitStream /\ DatagramAtRest /\ DiscoveryAtRest /\ ServerAtRest /\ RoundAtRest /\ CodecAtRest
  /\ RequestAtRest
  /\ MeterAtRest
  /\ AddrAtRest
  /\ SeqAtRest
SpecStream == StartStream /\ [][NextStream]_vars

StartDatagram ==
  InitDatagram /\ StreamAtRest /\ DiscoveryAtRest /\ ServerAtRest /\ RoundAtRest /\ CodecAtRest
  /\ RequestAtRest
  /\ MeterAtRest
  /\ AddrAtRest
  /\ SeqAtRest
SpecDatagram == StartDatagram /\ [][NextDatagram]_vars

(* the steps of the client that need no datagram: time going by, the idle  *)
(* break, the end of sleep(2), the exit of the receive thread, the report  *)
ClientStep ==
  \/ UdpTick \/ UdpClientIdleBreak \/ UdpClientStop \/ UdpRecvThreadExit
  \/ UdpClientReport

(* a session to whose socket the network hands none of the server's       *)
(* datagrams                                                               *)
NextSilent ==
  \/ UdpRequestLost \/ UdpSrvStart \/ UdpSrvSend \/ UdpSrvSendFail
  \/ UdpSrvFinish \/ NetLose \/ UdpClientStart \/ UdpClientRecvStray
  \/ UdpClientIdleBreak \/ UdpClientStop \/ UdpRecvThreadExit
  \/ UdpClientReport \/ UdpTick

(* time goes by and a thread that can run does run *)
LiveSilent == StartDatagram /\ [][NextSilent]_vars /\ WF_vars(ClientStep)

StartDiscovery ==
  InitDiscovery /\ StreamAtRest /\ DatagramAtRest /\ ServerAtRest /\ RoundAtRest /\ CodecAtRest
  /\ RequestAtRest
  /\ MeterAtRest
  /\ AddrAtRest
  /\ SeqAtRest
SpecDiscovery == StartDiscovery /\ [][NextDiscovery]_vars

StartServer ==
  InitServer /\ StreamAtRest /\ DatagramAtRest /\ DiscoveryAtRest /\ RoundAtRest /\ CodecAtRest
  /\ RequestAtRest
  /\ MeterAtRest
  /\ AddrAtRest
  /\ SeqAtRest
SpecServer == StartServer /\ [][NextServer]_vars

(* every thread that can take a step is scheduled: a loop whose blocking   *)
(* call has returned, or raised, gets to its exit                          *)
LiveServer ==
  /\ StartServer
  /\ [][NextServer]_vars
  /\ WF_vars(AcceptorExit)
  /\ WF_vars(DispatcherExit)
  /\ WF_vars(BroadcastLoopExit)

StartRound ==
  InitRound /\ StreamAtRest /\ DatagramAtRest /\ DiscoveryAtRest /\ ServerAtRest /\ CodecAtRest
  /\ RequestAtRest
  /\ MeterAtRest
  /\ AddrAtRest
  /\ SeqAtRest
SpecRound == StartRound /\ [][NextRound]_vars

(* the step a worker thread takes next when nothing fails in it *)
WorkerProgress(w) ==
  \/ TcpConnectSend(w) \/ TcpReceive(w) \/ TcpReceiveEOF(w)
  \/ UdpSendRequest(w) \/ UdpTimeout(w) \/ AddResult(w)


StartCodec ==
  InitCodec /\ StreamAtRest /\ DatagramAtRest /\ DiscoveryAtRest /\ ServerAtRest
  /\ RoundAtRest /\ RequestAtRest
  /\ MeterAtRest
  /\ AddrAtRest
  /\ SeqAtRest
SpecCodec == StartCodec /\ [][NextCodec]_vars

StartRequest ==
  InitRequest /\ StreamAtRest /\ DatagramAtRest /\ DiscoveryAtRest
  /\ ServerAtRest /\ RoundAtRest /\ CodecAtRest
  /\ MeterAtRest
  /\ AddrAtRest
  /\ SeqAtRest
SpecRequest == StartRequest /\ [][NextRequest]_vars

StartMeter ==
  InitMeter /\ StreamAtRest /\ DatagramAtRest /\ DiscoveryAtRest
  /\ ServerAtRest /\ RoundAtRest /\ CodecAtRest /\ RequestAtRest
  /\ AddrAtRest
  /\ SeqAtRest
SpecMeter == StartMeter /\ [][NextMeter]_vars

StartAddr ==
  InitAddr /\ StreamAtRest /\ DatagramAtRest /\ DiscoveryAtRest
  /\ ServerAtRest /\ RoundAtRest /\ CodecAtRest /\ RequestAtRest
  /\ MeterAtRest
  /\ SeqAtRest
SpecAddr == StartAddr /\ [][NextAddr]_vars

StartSeq ==
  InitSeq /\ StreamAtRest /\ DatagramAtRest /\ DiscoveryAtRest
  /\ ServerAtRest /\ RoundAtRest /\ CodecAtRest /\ RequestAtRest
  /\ MeterAtRest /\ AddrAtRest
SpecSeq == StartSeq /\ [][NextSeq]_vars

(* a receive thread that can leave its loop does leave it: the flag is     *)
(* tested after every recvfrom, and recvfrom returns within its 0.5 s      *)
(* timeout                                                                 *)
LiveSeq == StartSeq /\ [][NextSeq]_vars /\ WF_vars(ThreadExits)

(***************************************************************************)
(* C1: the server's stream worker writes the parsed requested_size in      *)
(* ceil(requested_size / 1024) writes, each of 1024 bytes except possibly  *)
(* the last, which is the remainder; a worker that ends without an error   *)
(* has written exactly requested_size bytes, and nothing is written once   *)
(* the connection is closed.                                               *)
(***************************************************************************)
IsCeilOfChunks(t, n) ==
  /\ t >= 0
  /\ t * CHUNK_SIZE >= n
  /\ (t - 1) * CHUNK_SIZE < n \/ (t = 0 /\ n = 0)

C1_WritesSoFar ==
  /\ bytes_sent = SumSeq(writes)
  /\ bytes_sent <= requested_size
  /\ \A i \in 1..Len(writes) :
       /\ writes[i] \in 1..CHUNK_SIZE
       /\ i < Len(writes) => writes[i] = CHUNK_SIZE
       /\ writes[i] # CHUNK_SIZE =>
            writes[i] = requested_size - (i - 1) * CHUNK_SIZE

C1_WritesAtClose ==
  (srvPc = "closed" /\ ~srvError) =>
     /\ IsCeilOfChunks(Len(writes), requested_size)
     /\ bytes_sent = requested_size

C1_ExactChunks ==
  /\ [](C1_WritesSoFar /\ C1_WritesAtClose)
  /\ [][srvPc = "closed" => writes' = writes /\ srvPc' = "closed"]_vars

C1_Witness ==
  /\ srvPc = "closed"
  /\ ~srvError
  /\ requested_size = 2 * CHUNK_SIZE + 1
  /\ writes = <<CHUNK_SIZE, CHUNK_SIZE, 1>>

(***************************************************************************)
(* C2: in a client stream session bytes_received never decreases and never *)
(* exceeds the requested size, and a session that completes holds          *)
(* min(requested size, bytes the server sent before closing).              *)
(***************************************************************************)
C2_BytesReceived ==
  /\ [](bytes_received <= file_size)
  /\ [](cliPc = "done" => bytes_received = Min(file_size, bytes_sent))
  /\ [][bytes_received' >= bytes_received]_vars

(* the server closed early: the session completed with part of the bytes *)
C2_Witness ==
  /\ cliPc = "done"
  /\ srvPc = "closed"
  /\ 0 < bytes_received
  /\ bytes_received < file_size
  /\ bytes_received = bytes_sent

(***************************************************************************)
(* C3: on a valid Request the datagram worker computes total_segments =    *)
(* ceil(requested_size / 1024) and sends the Payloads with segment_index   *)
(* 0, 1, ..., total_segments - 1 in this order, each once, every header    *)
(* carrying the same total_segments; a worker that ends without a send     *)
(* error has sent all of them (none when the size is 0).                   *)
(***************************************************************************)
C3_SegmentsInOrder ==
  /\ udpSrvPc # "wait" => IsCeilOfChunks(srv_total, udp_file_size)
  /\ Len(sentLog) <= srv_total
  /\ \A i \in 1..Len(sentLog) :
       /\ sentLog[i].seg = i - 1
       /\ sentLog[i].seg < sentLog[i].total
       /\ sentLog[i].total = srv_total
       /\ sentLog[i].cookie = MAGIC_COOKIE
       /\ sentLog[i].msg_type = MSG_TYPE_PAYLOAD
  /\ udpSrvPc = "done" => Len(sentLog) = srv_total

C3_Witness ==
  /\ udpSrvPc = "done"
  /\ udp_file_size = 2 * CHUNK_SIZE + 1
  /\ srv_total = 3
  /\ [i \in 1..Len(sentLog) |-> sentLog[i].seg] = <<0, 1, 2>>

(***************************************************************************)
(* C4: under loss, duplication and reordering of the Payloads, every       *)
(* segment_index the client records lies in [0, total_segments), the       *)
(* reported success is |distinct segment_index values received| /          *)
(* total_segments, and it lies between 0 and 100 percent.                  *)
(***************************************************************************)
C4_LossFraction ==
  /\ \A i \in received_segments : 0 <= i /\ i < total_segments
  /\ report.made =>
       /\ report.received = Cardinality(seenIdx)
       /\ 0 <= report.pctNum
       /\ report.pctNum <= 100 * report.pctDen
       /\ seenIdx # {} =>
            /\ report.total > 0
            /\ report.pctNum * report.total
                 = 100 * Cardinality(seenIdx) * report.pctDen

(***************************************************************************)
(* C5: a datagram on the discovery port that has not 9 bytes, or a wrong   *)
(* cookie, or a wrong message type, is discarded: the listener raises no   *)
(* error, stays in its receive loop and keeps what it held.                *)
(***************************************************************************)
C5_MalformedDiscarded ==
  [][(discPc = "listening" /\ arrivals' = arrivals + 1
        /\ ~IsValidOffer(lastDgram'))
     => (discPc' = "listening" /\ endpoint' = endpoint /\ outcome' = outcome)]_vars

(***************************************************************************)
(* C6: the endpoint of a discovery is (sender IP, udp_port, tcp_port) of   *)
(* the first valid Offer received; the listener stops on it, and Offers    *)
(* that arrive afterwards leave the endpoint as it is.                     *)
(***************************************************************************)
C6_FirstOfferKept ==
  /\ [](firstValid # NoDatagram =>
          (endpoint = EndpointOf(firstValid) /\ discPc # "listening"))
  /\ [](discPc = "found" => firstValid # NoDatagram)
  /\ [][discPc = "found" => endpoint' = endpoint]_vars

(* an Offer of the other server arrived after the acceptance *)
C6_Witness ==
  /\ discPc = "found"
  /\ IsValidOffer(lastDgram)
  /\ lastDgram.ip # endpoint.ip
  /\ endpoint = EndpointOf(firstValid)

(***************************************************************************)
(* C7: a discovery that receives no valid Offer within the time bound ends *)
(* (with no endpoint) instead of waiting on: the listener is never still   *)
(* waiting after the bound.                                                *)
(***************************************************************************)
C7_DiscoveryTimesOut ==
  discPc = "listening" => waited <= broadcast_timeout

(***************************************************************************)
(* C9: when a broadcast send fails only the Offer Broadcaster ends: the    *)
(* Connection Acceptor, the Datagram Request Dispatcher and the running    *)
(* workers keep their sockets open and go on serving.                      *)
(***************************************************************************)
C9_BroadcastFailureIsLocal ==
  (bcastFailed /\ ~stopRequested) =>
     /\ tcpSock = "listening"
     /\ acceptors > 0 \/ srvVariant = "Server.py"
     /\ srvVariant # "Server.py" => (udpSock = "bound" /\ dispPc = "running")
     /\ abortedWorkers = 0

(***************************************************************************)
(* C10: every Offer a server emits is the same 9-byte datagram             *)
(* [cookie 0xabcddcba][type 0x02][udp_port][tcp_port], and the two ports   *)
(* are those the Datagram Request Dispatcher and the Connection Acceptor   *)
(* are bound to.                                                           *)
(***************************************************************************)
C10_OfferLayout ==
  /\ Cardinality(offers) <= 1
  /\ \A o \in offers :
       /\ o.dgram.len = OfferLen
       /\ o.dgram.cookie = MAGIC_COOKIE
       /\ o.dgram.msg_type = MSG_TYPE_OFFER
       /\ o.dgram.udp_port = udpBoundPort
       /\ o.dgram.tcp_port = tcpBoundPort

(***************************************************************************)
(* C8: a round of K stream workers and J datagram workers ends with        *)
(* exactly K+J result records, one per worker, and the counts in a record  *)
(* come from the worker's own session only.                                *)
(***************************************************************************)
RecordsOf(kind, n) ==
  {i \in 1..Len(results) :
     results[i].kind = kind /\ results[i].connection_number = n}

C8_OneRecordPerWorker ==
  roundPc = "reported" =>
     /\ Len(results) = num_tcp_connections + num_udp_connections
     /\ \A n \in 1..num_tcp_connections : Cardinality(RecordsOf("TCP", n)) = 1
     /\ \A n \in 1..num_udp_connections :
          /\ Cardinality(RecordsOf("UDP", n)) = 1
          /\ \A i \in RecordsOf("UDP", n) :
               /\ results[i].received_segments =
                    session[num_tcp_connections + n].received
               /\ results[i].received_segments <=
                    served[num_tcp_connections + n].sent

(***************************************************************************)
(* C11: what the receiving side unpacks from the bytes the sending side    *)
(* packed is the original field values, for an Offer (9 bytes), a Request  *)
(* (13 bytes) and a Payload header (21 bytes), most significant byte       *)
(* first.                                                                  *)
(***************************************************************************)
HeaderLen(kind) ==
  IF kind = "offer" THEN OfferLen
  ELSE IF kind = "request" THEN RequestLen ELSE PayloadHeaderLen

MessageType(kind) ==
  IF kind = "offer" THEN MSG_TYPE_OFFER
  ELSE IF kind = "request" THEN MSG_TYPE_REQUEST ELSE MSG_TYPE_PAYLOAD

C11_RoundTrip ==
  /\ codecPc # "built" =>
       /\ Len(wireData) = HeaderLen(msgKind) + Len(msgFields.payload)
       /\ \A i \in 1..Len(wireData) : wireData[i] \in 0..255
       /\ msgKind = "request" => wireData[13] = msgFields.a % 256
       /\ msgKind = "offer" => wireData[9] = msgFields.b % 256
       /\ msgKind = "payload" => wireData[21] = msgFields.b % 256
  /\ codecPc = "received" =>
       /\ decoded.ok
       /\ decoded.cookie = MAGIC_COOKIE
       /\ decoded.msg_type = MessageType(msgKind)
       /\ decoded.a = msgFields.a
       /\ decoded.b = msgFields.b

C11_Witness ==
  /\ codecPc = "received"
  /\ msgKind = "payload"
  /\ msgFields.a = 65536 /\ msgFields.b = 255 /\ msgFields.payload # <<>>
  /\ txSide = "server.py" /\ rxSide = "client.py"
  /\ decoded.a = 65536 /\ decoded.b = 255

(***************************************************************************)
(* C12: the client's receive loop ends only when the expected number of    *)
(* segments has been received or when no datagram has arrived for the idle *)
(* window.                                                                 *)
(***************************************************************************)
ExpectedCountReached ==
  IF udpCli = "client.py"
  THEN total_segments > 0 /\ Cardinality(received_segments) = total_segments
  ELSE total_segments # NoneValue /\ received_count = total_segments

C12_LoopEndsOnCountOrIdle ==
  [][(udpRecvPc = "loop" /\ udpRecvPc' = "ended")
       => (ExpectedCountReached' \/ silence >= IdleWindow)]_vars

(***************************************************************************)
(* C13: when the server has closed the stream after sending fewer bytes    *)
(* than requested, the client's session ends without an error and its      *)
(* result is computed from the bytes actually received.                    *)
(***************************************************************************)
C13_PartialRecord ==
  (tcp_record.made /\ srvPc = "closed" /\ bytes_sent < file_size)
    => /\ cliPc = "done"
       /\ tcp_record.bytes = bytes_received
       /\ tcp_record.bits = 8 * bytes_received

(***************************************************************************)
(* C14: when the size token is not a decimal integer or is negative, the   *)
(* stream worker writes zero bytes to the connection and closes it, and    *)
(* does nothing else.                                                      *)
(***************************************************************************)
TokenRefused(srv, text) ==
  LET n == PyInt(RequestToken(srv, text)) IN ~n.ok \/ n.value < 0

C14_InvalidSizeRejected ==
  (rqPc = "return" /\ TokenRefused(rqSrv, rqText))
    => /\ rqSent = 0
       /\ rqDatagrams = 0
       /\ rqConn = "closed"

(***************************************************************************)
(* C15: a datagram on the request port that is not exactly 13 bytes, or    *)
(* has a wrong cookie or a wrong type, starts no Payload transfer and does *)
(* not stop the dispatcher: it goes on receiving Requests.                 *)
(***************************************************************************)
C15_InvalidRequestIgnored ==
  [][(badRequests' = badRequests + 1)
       => (udpWorkers' = udpWorkers /\ dispatched' = dispatched
           /\ dispPc' = "running")]_vars

(***************************************************************************)
(* C16: the acceptor starts exactly one worker for each connection it      *)
(* accepts and goes back to accepting without waiting for the worker: a    *)
(* new connection can be accepted while workers are still running.         *)
(***************************************************************************)
C16_OneWorkerPerConnection ==
  /\ [][accepted' # accepted
          => /\ accepted' = accepted + 1
             /\ tcpWorkers' = tcpWorkers + 1
             /\ acceptors' = acceptors]_vars
  /\ [][tcpWorkers' > tcpWorkers => accepted' = accepted + 1]_vars
  /\ []((acceptors > 0 /\ tcpSock = "listening" /\ accepted < MaxConns)
          => ENABLED Accept)

(* a second connection was accepted while the first worker was running *)
C16_Witness ==
  /\ srvVariant \in {"server.py", "servertest.py"}
  /\ accepted = 2
  /\ tcpWorkers = 2
  /\ acceptors = 1
  /\ tcpSock = "listening"

(***************************************************************************)
(* C17 (as stated): the appends of concurrently running workers are        *)
(* serialized by a mutual-exclusion section: no two workers are inside     *)
(* their appending section, results.append followed by stats.add_*_result, *)
(* at the same time.                                                       *)
(***************************************************************************)
Appending == { w \in Workers : session[w].pc = "appended" }

Recorded == { w \in 1..threads : session[w].pc = "recorded" }

(* the positions of worker w's record of this round in the aggregator *)
StatsOf(w) ==
  IF IsStreamWorker(w)
  THEN { i \in 1..Len(tcp_results) :
           /\ tcp_results[i].round = roundNo
           /\ tcp_results[i].connection_number = ConnectionNumber(w) }
  ELSE { i \in 1..Len(udp_results) :
           /\ udp_results[i].round = roundNo
           /\ udp_results[i].connection_number = ConnectionNumber(w) }

ResultsOf(w) ==
  RecordsOf(IF IsStreamWorker(w) THEN "TCP" ELSE "UDP", ConnectionNumber(w))

AllWorkersTerminated ==
  /\ threads = num_tcp_connections + num_udp_connections
  /\ \A w \in Workers :
       session[w].pc \in (IF w <= threads THEN {"recorded", "failed"}
                          ELSE {"unused"})

C18_ReportAfterJoin ==
  /\ [][(roundPc = "testing" /\ roundPc' # "testing")
          => AllWorkersTerminated]_vars
  /\ [][(displayed' # displayed \/ csv' # csv) => AllWorkersTerminated]_vars
  /\ [](roundPc = "reported"
          => /\ AllWorkersTerminated
             /\ displayed = results
             /\ csv = [tcp |-> tcp_results, udp |-> udp_results])

C18_Witness ==
  /\ roundPc = "reported"
  /\ num_tcp_connections = 1
  /\ num_udp_connections = 1
  /\ session[1].pc = "recorded"
  /\ session[2].pc = "recorded"
  /\ Len(displayed) = 2
  /\ Len(csv.udp) = 1

(***************************************************************************)
(* C19: the client's control state moves only along Idle -> Discovering -> *)
(* Testing -> Aggregating -> Idle and Discovering -> Failed -> Idle;       *)
(* Testing is entered only with a discovered endpoint, and after           *)
(* Aggregating or a discovery failure the client goes back to discovery:   *)
(* it never leaves this loop.                                              *)
(***************************************************************************)
(* Discovering is "listening" and "found"; Failed is the return to "idle"  *)
(* with no test run                                                        *)
ControlMoves ==
  { <<"idle", "listening">>, <<"listening", "found">>,
    <<"found", "testing">>, <<"testing", "aggregating">>,
    <<"aggregating", "idle">>, <<"listening", "idle">>, <<"found", "idle">> }

C19_ControlLoop ==
  /\ [][discPc' # discPc => <<discPc, discPc'>> \in ControlMoves]_vars
  /\ [](discPc = "testing" => endpoint # NoEndpoint)
  /\ [][(discPc = "listening" /\ discPc' = "idle") => endpoint' = NoEndpoint]_vars

(***************************************************************************)
(* C20: on start-up no Offer is sent, no connection is accepted and no     *)
(* datagram is read on the request port before the corresponding port is   *)
(* bound; every Offer is sent after all the ports it advertises are bound. *)
(***************************************************************************)
C20_BoundBeforeActivity ==
  /\ [][nOffers' > nOffers
          => /\ tcpSock = "listening"
             /\ tcpBoundPort = server_tcp_port
             /\ offer_packet.tcp_port = tcpBoundPort
             /\ offer_packet.udp_port # NoneValue
                  => (udpSock = "bound"
                      /\ offer_packet.udp_port = udpBoundPort)]_vars
  /\ [][accepted' > accepted
          => (tcpSock = "listening" /\ tcpBoundPort = server_tcp_port)]_vars
  /\ [][(dispatched' > dispatched \/ badRequests' > badRequests)
          => (udpSock = "bound" /\ udpBoundPort = server_udp_port)]_vars
  /\ []((acceptors > 0 \/ bcastPc = "running") => tcpBoundPort # NoneValue)
  /\ [](dispPc = "running" => udpBoundPort # NoneValue)

(* the first Offer has been sent, with both advertised ports bound, and a  *)
(* connection and a Request were taken afterwards                          *)
C20_Witness ==
  /\ srvVariant = "server.py"
  /\ nOffers = 1
  /\ udpSock = "bound" /\ udpBoundPort = 60000
  /\ tcpSock = "listening" /\ tcpBoundPort = 10000
  /\ accepted = 1
  /\ dispatched = 1

(***************************************************************************)
(* C21: once the stop signal is set the Offer Broadcaster, the Connection  *)
(* Acceptor and the Datagram Request Dispatcher leave their loops: from    *)
(* then on no Offer is sent, no connection is accepted and no send worker  *)
(* is started, and eventually none of the three loops is running.          *)
(***************************************************************************)
StopSignalSet == ~is_running \/ stopRequested

LoopsEnded == bcastPc # "running" /\ acceptors = 0 /\ dispPc # "running"

C22_StrayLeavesSession ==
  [][strays' = strays + 1
       => /\ udp_bytes_received' = udp_bytes_received
          /\ received_segments' = received_segments
          /\ received_count' = received_count
          /\ total_segments' = total_segments]_vars

(***************************************************************************)
(* C23: a failure inside one transfer worker ends that worker only.  A     *)
(* step of one worker, its failure included, leaves the session of every   *)
(* other worker and what the server sent to it as they were; a worker that *)
(* has not finished can always take its next step (its connection is       *)
(* accepted, its Request is answered) whatever became of the others; a     *)
(* failed worker stays failed, nothing is tried again; main is never held  *)
(* back by a failed worker and reports with every started worker at its    *)
(* end.                                                                    *)
(***************************************************************************)
Unfinished(w) == session[w].pc \in {"started", "receiving", "appended"}

C23_FailureIsLocal ==
  /\ [][roundPc = "testing" =>
          \A w \in Workers : \A v \in Workers \ {w} :
             (session'[w] # session[w] \/ served'[w] # served[w])
                => (session'[v] = session[v] /\ served'[v] = served[v])]_vars
  /\ [](\A w \in Workers : Unfinished(w) => ENABLED WorkerProgress(w))
  /\ [][\A w \in Workers :
          (roundPc = "testing" /\ session[w].pc = "failed")
             => (session'[w] = session[w] /\ served'[w] = served[w])]_vars
  /\ []((roundPc = "testing" /\ \A w \in Workers : ~Unfinished(w))
          => ENABLED (StartThread \/ JoinAndReport))
  /\ [](roundPc = "reported" => \A w \in Workers : ~Unfinished(w))

(* the first stream worker failed while receiving, the second one, started *)
(* with it, received all its bytes and its record is reported              *)
C23_Witness ==
  /\ roundPc = "reported"
  /\ num_tcp_connections = 2
  /\ test_file_size = CHUNK_SIZE + 1
  /\ session[1].pc = "failed"
  /\ served[1].state = "requested"
  /\ session[2].pc = "recorded"
  /\ session[2].received = test_file_size
  /\ Len(displayed) = 1

(***************************************************************************)
(* C24: however the bytes of the size token are split across the receives  *)
(* of the server's stream worker, the size it serves is the integer the    *)
(* whole token encodes, never the integer of a prefix of the token.        *)
(***************************************************************************)
WholeTokenValue == IntOf(Strip(SizeToken(tcpCli, file_size)))

C24_WholeTokenServed ==
  /\ srvPc = "send" => requested_size = WholeTokenValue
  /\ (srvPc = "closed" /\ ~srvError) => bytes_sent = WholeTokenValue

(***************************************************************************)
(* C25: in the server's datagram transfer of requested_size bytes the      *)
(* payload of segment i has min(1024, requested_size - i * 1024) bytes,    *)
(* which is at least 1 and at most 1024 for every segment sent, and the    *)
(* payloads of a finished transfer add up to requested_size.               *)
(***************************************************************************)
PayloadLengths == [i \in 1..Len(sentLog) |-> sentLog[i].len - PayloadHeaderLen]

C25_PayloadLengths ==
  /\ \A i \in 1..Len(sentLog) :
       /\ PayloadLengths[i] \in 1..1024
       /\ PayloadLengths[i] =
            (IF udp_file_size - (i - 1) * 1024 < 1024
             THEN udp_file_size - (i - 1) * 1024 ELSE 1024)
       /\ sentLog[i].seg = i - 1
  /\ SumSeq(PayloadLengths) <= udp_file_size
  /\ udpSrvPc = "done" => SumSeq(PayloadLengths) = udp_file_size

C25_Witness ==
  /\ udpSrvPc = "done"
  /\ udp_file_size = CHUNK_SIZE + 1
  /\ PayloadLengths = <<CHUNK_SIZE, 1>>

(***************************************************************************)
(* C26: a Payload whose segment_index the session has already received     *)
(* changes neither the session's count of received segments nor its        *)
(* success rate, and never makes the receive loop take the transfer for    *)
(* complete while a segment_index is missing: the count is the number of   *)
(* distinct indices received, and a loop that saw the expected count has   *)
(* seen every index.                                                       *)
(***************************************************************************)
SegmentsCounted ==
  IF udpCli = "client.py" THEN Cardinality(received_segments) ELSE received_count

C26_DuplicateIgnored ==
  /\ SegmentsCounted = Cardinality(seenIdx)
  /\ (udpRecvPc = "ended" /\ ExpectedCountReached)
        => seenIdx = 0..(total_segments - 1)
  /\ (report.made /\ seenIdx # {})
        => report.pctNum * report.total
             = 100 * Cardinality(seenIdx) * report.pctDen

(***************************************************************************)
(* C27: every throughput computation divides by a duration that is         *)
(* strictly positive, also when the two readings of the clock are equal,   *)
(* so that no division by zero occurs; a session of positive size that     *)
(* moved all its bytes reports a throughput above 0.                       *)
(***************************************************************************)
C27_PositiveDuration ==
  /\ mtPc # "raised"
  /\ mtPc = "computed" =>
       /\ mtDuration > 0
       /\ (mtSize > 0 /\ mtDone) => mtSpeedNum > 0

(***************************************************************************)
(* C28: a datagram session of a client in which no valid Payload header is *)
(* received (every segment lost, or a requested size of 0) ends all the    *)
(* same, and its result has zero received segments and the success rate 0, *)
(* which is not a quotient by total_segments.                              *)
(***************************************************************************)
NoHeaderSeen == seenIdx = {}

C28_EmptySessionReports ==
  /\ [](udpMainPc = "wait" => <>report.made)
  /\ []((report.made /\ NoHeaderSeen) =>
         /\ report.received = 0
         /\ report.pctNum = 0
         /\ report.pctDen = 1
         /\ report.total \in {0, NoneValue})

(* two segments were sent and both were lost *)
C28_Witness ==
  /\ report.made /\ NoHeaderSeen
  /\ udp_file_size = CHUNK_SIZE + 1 /\ Len(sentLog) = 2 /\ net = {}
  /\ udpCli = "clienttest.py" /\ total_segments = NoneValue

(***************************************************************************)
(* C29: every Payload a server sends in answer to a Request is addressed   *)
(* to the address the Request came from; with Requests of several client   *)
(* sockets under way, each socket receives only segments made for its own  *)
(* Request; one sending thread is started per valid Request.               *)
(***************************************************************************)
SendersFor(c) ==
  {i \in 1..Len(paWorkers) : paWorkers[i].req = c /\ paWorkers[i].valid}

C29_PayloadToRequester ==
  /\ \A d \in paNet : d.to = d.gen
  /\ \A c \in ClientSockets : \A m \in paInbox[c] : m.gen = c
  /\ \A c \in ClientSockets :
       Cardinality(SendersFor(c)) =
         IF paCli[c] = "received" /\ paValid[c] THEN 1 ELSE 0

(* two sending threads half-way, each socket holding its own segment 0 *)
C29_Witness ==
  /\ Len(paWorkers) = 2
  /\ \A i \in 1..2 : paWorkers[i].valid /\ paWorkers[i].seg_num = 1
                       /\ paWorkers[i].size = CHUNK_SIZE + 1
  /\ paWorkers[1].req # paWorkers[2].req
  /\ \A c \in ClientSockets : paInbox[c] = {[gen |-> c, seg |-> 0]}

(***************************************************************************)
(* C30: a client that listens while a server broadcasts without a send     *)
(* failure gets a valid Offer in the end, because every Offer is sent to   *)
(* the well-known discovery port 13117 and that is the port the listener   *)
(* is bound to.                                                            *)
(***************************************************************************)
C30_OfferReachesListener ==
  \A o \in offers :
    /\ o.dst_port = BROADCAST_PORT
    /\ \A c \in DiscoveryClients : ListenPort(c) = o.dst_port

(***************************************************************************)
(* C36: a running server has at most one Connection Acceptor loop on its   *)
(* listening socket at any time; the number of acceptor loops does not     *)
(* grow with the number of Offers broadcast.                               *)
(***************************************************************************)
C36_SingleAcceptor == acceptors <= 1

(***************************************************************************)
(* C31: on a connection that is not broken every stream session ends on    *)
(* both sides: the worker parses the token the client sent, sends the      *)
(* bytes and closes, and the receive loop of the client ends; in no state  *)
(* does the client wait for data while the worker waits for more of the    *)
(* token.                                                                  *)
(***************************************************************************)
ClientAwaitsData == cliPc = "recv" /\ s2c = 0 /\ srvPc # "closed"
WorkerAwaitsToken == srvPc = "read" /\ c2s = <<>> /\ cliPc \notin {"start", "done"}

C31_NoMutualWait == ~broken => ~(ClientAwaitsData /\ WorkerAwaitsToken)

(***************************************************************************)
(* C32: a server stream worker closes the connection it was handed on      *)
(* every path: after a complete transfer, after an empty or unparseable    *)
(* request, after an error in the middle of the transfer.  When the worker *)
(* has returned, its connection is closed.                                 *)
(***************************************************************************)
C32_WorkerClosesConnection == rqPc = "return" => rqConn = "closed"

(***************************************************************************)
(* C33: after a datagram session of requested size S in which every        *)
(* segment was delivered exactly once and nothing else was received, the   *)
(* byte count the client computes its throughput from equals S, the sum of *)
(* the payload lengths of the segments received.                           *)
(***************************************************************************)
(* client.py 183: udp_bytes_received * 8; clienttest.py 250:               *)
(* segment_file_size * 8                                                   *)
ThroughputBytes ==
  IF udpCli = "client.py" THEN udp_bytes_received ELSE udp_file_size

EachSegmentOnce ==
  /\ udpSrvPc = "done"
  /\ Len(sentLog) = TotalSegments(udpSrv, udp_file_size)
  /\ seenIdx = 0..(Len(sentLog) - 1)
  /\ dups = 0
  /\ strays = 0

C33_ThroughputBytesIsSize ==
  (report.made /\ EachSegmentOnce) => ThroughputBytes = udp_file_size

(***************************************************************************)
(* C34: in the datagram transfer of client.py the receive thread ends once *)
(* the main thread has cleared keep_receiving and closed the socket; the   *)
(* main thread reads udp_bytes_received, received_segments and             *)
(* total_segments only after it has joined that thread; the fields are     *)
(* reset before the receive thread of the next transfer starts, so the     *)
(* statistics of a transfer hold no datagram of another transfer.          *)
(***************************************************************************)
RunningThreads == {k \in Transfers : sqThread[k] = "running"}

CurrentThreadEnded == sqXfer > 0 /\ ThreadOver(sqXfer)

C34_ThreadJoinedBeforeRead ==
  /\ [](sqMainPc = "join" => <>CurrentThreadEnded)
  /\ [][Len(sqReports') > Len(sqReports)
          => /\ RunningThreads = {}
             /\ sqReports'[Len(sqReports')].joined]_vars
  /\ [][sqXfer' # sqXfer
          => /\ RunningThreads = {}
             /\ RunningThreads' = {sqXfer'}
             /\ sqSegments' = {} /\ sqTotal' = 0 /\ sqBytes' = 0]_vars
  /\ [](\A i \in 1..Len(sqReports) :
          /\ sqReports[i].xfer = i
          /\ sqReports[i].from \subseteq {i}
          /\ sqReports[i].segments \subseteq 0..(sqReports[i].total - 1))

(* two transfers reported, each from its own segments, while a segment of  *)
(* the first transfer was still on its way when the second one ran         *)
C34_Witness ==
  /\ Len(sqReports) = 2
  /\ sqReports[1].from = {1} /\ sqReports[1].segments = {0}
  /\ sqReports[2].from = {2} /\ sqReports[2].segments = {0, 1}
  /\ \E d \in sqNet : d.gen = 1

(***************************************************************************)
(* C35: over successive test rounds of the client loop, what is summarized *)
(* and handed to reporting and export at the end of round r is exactly the *)
(* records the workers of round r produced, and no record of an earlier    *)
(* round.                                                                  *)
(***************************************************************************)
C35_ExportOfThisRoundOnly ==
  roundPc = "reported" =>
    /\ \A i \in 1..Len(csv.tcp) : csv.tcp[i].round = roundNo
    /\ \A i \in 1..Len(csv.udp) : csv.udp[i].round = roundNo
    /\ Len(csv.tcp) + Len(csv.udp) = Cardinality(Recorded)
    /\ Len(displayed) = Cardinality(Recorded)

====
